---- MODULE Spec2Model ----
(***************************************************************************)
(* A model of the internship discovery / auto-apply repository.            *)
(*                                                                         *)
(*   SpecApply : auto_apply_batch and _apply_one with the two platform     *)
(*               fillers (src/auto-apply.py)                               *)
(*   SpecNav   : LLMNavigator.navigate_to_jobs over fixture pages          *)
(*               (src/backend_navigator.py, src/playwright_fetcher.py)     *)
(*   SpecReplay: navigate_to_jobs called twice, on a new or on the same    *)
(*               LLMNavigator, with an oracle that repeats its answers     *)
(*   SpecDiscover: deep_collect_postings, collect_postings_from_portal     *)
(*               (src/app.py) and the two deep_scrape_company_* crawls     *)
(*               (src/scraper.py)                                          *)
(*   SpecCrawl : the two deep_scrape_company_* crawls alone, each step     *)
(*               taken when it can be (for their termination)              *)
(*   SpecResolve: _platform_of and _platform_for applied to the same URLs  *)
(*   SpecMain  : calls of _get_df over the cache of src/main.py            *)
(*   SpecLinks : crawl_csusb_links and crawl_csusb_links_sync              *)
(*               (src/playwright_fetcher.py)                               *)
(*   SpecIntent: classify_intent (src/query_to_filter.py)                  *)
(*   SpecCover : the cover-letter session and _drive_once                  *)
(*               (src/cover_letter/cl_state.py, cl_flow.py)                *)
(*   SpecFallback: the cover-letter conversation without a planner, each   *)
(*               step taken when it can be                                 *)
(*                                                                         *)
(* Every await of the asynchronous code is one action, so that a failure   *)
(* of the remote side can fall between any two of them.                    *)
(***************************************************************************)
EXTENDS Integers, Sequences, FiniteSets, TLC

VARIABLES
    \* ---- auto_apply_batch (src/auto-apply.py) ----
    selected,       \* the batch: a sequence of posting dicts
    who,            \* candidate identity dict
    resume_bytes,   \* "" (empty upload) or the resume blob
    cover_text,     \* cover letter text
    resume_path,    \* path returned by _save_temp_file ("" = no file)
    tmp_files,      \* paths of the temporary files that exist on disk
    out,            \* results appended so far
    pc,             \* position in auto_apply_batch / _apply_one
    item_i,         \* index into selected of the item being processed
    browser,        \* "none" | "open" | "closed"
    contexts,       \* contexts[c] = "open" | "closed", c the c-th context made
    ctx,            \* the context of the running _apply_one (0 = none)
    platform,       \* local of _apply_one
    status,         \* local of _apply_one
    dest,           \* local of _apply_one
    page_url,       \* page.url of the running attempt
    stage,          \* index into Stages of the next fill loop
    last,           \* what the fill loop that just ran did
    trail,          \* history of the running attempt (see NoTrail)
    exc,            \* the exception leaving auto_apply_batch ("none" = none)
    \* ---- LLMNavigator.navigate_to_jobs (src/backend_navigator.py) ----
    pages,            \* the remote pages of this run (fixture), by URL
    extractor,        \* which extract_text_and_links self.fetcher offers
    max_hops,         \* LLMNavigator.max_hops
    start_url,        \* argument of navigate_to_jobs
    visited_urls,     \* LLMNavigator.visited_urls
    fetcher_visited,  \* PlaywrightFetcher.visited_urls
    current_url,      \* local of navigate_to_jobs
    hop_count,        \* local of navigate_to_jobs
    links,            \* local of navigate_to_jobs (Unbound before line 218)
    nav_pc,           \* position in navigate_to_jobs
    fetched,          \* URLs passed to fetch_url in this run, in order
    path,             \* URLs made current_url in this run, in order
    choice,           \* what the last visit_url decision led to
    nav_result,       \* the returned (final_url, links)
    nav_exit,         \* why the run ended
    decision,         \* local of navigate_to_jobs: the oracle's last answer
    replay,           \* TRUE: navigate_to_jobs is called a second time
    run,              \* 1 or 2: which call of navigate_to_jobs this is
    reuse,            \* the second call is made on the same LLMNavigator
    oracle,           \* the oracle's answers so far, by <<current_url, hop_count>>
    first,            \* how the first call ended
    consulted,        \* the pages the oracle was asked about in this run, in order
    \* ---- discovery (src/app.py, src/scraper.py) ----
    entry,            \* which discovery function runs
    dpc,              \* position in it
    landing,          \* the rows scrape_csusb_links yields when its fetch succeeds
    sources,          \* local of deep_collect_postings
    src_i,            \* index into sources of the source being processed
    all_rows,         \* local of deep_collect_postings
    total,            \* local of deep_collect_postings
    df,               \* the returned collection
    failed_src,       \* indices of the sources whose portal fetch failed
    d_exc,            \* the exception leaving the discovery function
    site,             \* the company's pages (fixture of the company scrape)
    max_pages,        \* argument of deep_scrape_company_*
    work,             \* pages still to visit: pending calls of visit / queue
    visited,          \* local of deep_scrape_company_*
    results,          \* results / found of deep_scrape_company_*; the
                      \* list collect_postings_from_portal returns
    seeds,            \* argument of deep_scrape_company_*
    limit,            \* argument of collect_postings_from_portal
    added,            \* rows the source processed last has put into all_rows
    read,             \* URLs requested by the discovery function, in order
    root_url,         \* argument of collect_postings_from_portal
    offers,           \* every card the company scrape took for a posting, in order
    \* ---- the links service (src/main.py) ----
    clock,            \* time.time()
    cache,            \* _cache: [at, df]
    calls,            \* the calls of _get_df, each with its locals and its history
    \* ---- the two platform resolvers (src/app.py, src/auto-apply.py) ----
    probe,            \* the two URLs given to the resolvers
    tags,             \* what _platform_of and _platform_for made of them
    \* ---- PlaywrightFetcher.crawl_csusb_links (src/playwright_fetcher.py) ----
    allowed_hosts,    \* argument of crawl_csusb_links, as a set
    web,              \* the remote site (fixture): the anchors of each page, in order
    flaky,            \* the pages whose page.goto raises
    lk_start,         \* argument start_url of crawl_csusb_links
    lk_max_pages,     \* argument max_pages of crawl_csusb_links
    queue,            \* local of crawl_csusb_links
    seen_pages,       \* local of crawl_csusb_links
    collected,        \* local of crawl_csusb_links
    seen_links,       \* local of crawl_csusb_links
    lk_current,       \* local current of crawl_csusb_links
    lk_pc,            \* position in crawl_csusb_links
    gotos,            \* URLs passed to page.goto in this run, in order
    lk_out,           \* what crawl_csusb_links returned (<<>> until it does)
    sync_out,         \* what crawl_csusb_links_sync returned (<<>> until it does)
    \* ---- classify_intent (src/query_to_filter.py) ----
    q_text,           \* argument q of classify_intent, in pieces
    llm_reply,        \* what _llm_json returns for this call
    intent,           \* what classify_intent returned ("" until it does)
    \* ---- the cover-letter flow (src/cover_letter/cl_flow.py, cl_state.py) ----
    want_cover_letter, \* st.session_state["want_cover_letter"]: None or "True"
    collecting_cover_profile, \* st.session_state["collecting_cover_profile"]
    cover_profile,    \* st.session_state["cover_profile"]
    cover_target_url, \* st.session_state["cover_target_url"]
    resume_text,      \* st.session_state["resume_text"]
    asked_for_resume, \* st.session_state["asked_for_resume"]
    pending_company_query, \* st.session_state["pending_company_query"]
    planner,          \* "up": _llm() gives a model; "down": it does not
    cv_pc,            \* position in the flow
    user_msg,         \* argument of the running _drive_once
    depth,            \* frames of _drive_once on the stack
    asked_field,      \* the profile field the last question was about ("" = none pending)
    answered,         \* the fields whose question the user has answered
    generated,        \* a letter was generated
    letter_target,    \* the target of the last letter
    ops               \* operations of the session so far

applyVars == <<selected, who, resume_bytes, cover_text, resume_path, tmp_files,
               out, pc, item_i, browser, contexts, ctx, platform, status, dest,
               page_url, stage, last, trail, exc>>
navVars == <<pages, extractor, max_hops, start_url, visited_urls, fetcher_visited,
             current_url, hop_count, links, nav_pc, fetched, path, choice,
             nav_result, nav_exit, decision, replay, run, reuse, oracle, first,
             consulted>>
discVars == <<entry, dpc, landing, sources, src_i, all_rows, total, df, failed_src, d_exc,
              site, max_pages, work, visited, results, seeds, limit, added, read,
              root_url, offers>>
mainVars == <<clock, cache, calls>>
resVars == <<probe, tags>>
linkVars == <<allowed_hosts, web, flaky, lk_start, lk_max_pages, queue, seen_pages,
              collected, seen_links, lk_current, lk_pc, gotos, lk_out, sync_out>>
intentVars == <<q_text, llm_reply, intent>>
coverVars == <<want_cover_letter, collecting_cover_profile, cover_profile, cover_target_url,
               resume_text, asked_for_resume, pending_company_query, planner, cv_pc,
               user_msg, depth, asked_field, answered, generated, letter_target, ops>>
vars == <<applyVars, navVars, discVars, mainVars, resVars, linkVars, intentVars, coverVars>>

\* what an action of one part leaves alone
notApply == <<navVars, discVars, mainVars, resVars, linkVars, intentVars, coverVars>>
notNav == <<applyVars, discVars, mainVars, resVars, linkVars, intentVars, coverVars>>
notDisc == <<applyVars, navVars, mainVars, resVars, linkVars, intentVars, coverVars>>
notMain == <<applyVars, navVars, discVars, resVars, linkVars, intentVars, coverVars>>
notRes == <<applyVars, navVars, discVars, mainVars, linkVars, intentVars, coverVars>>
notLinks == <<applyVars, navVars, discVars, mainVars, resVars, intentVars, coverVars>>
notIntent == <<applyVars, navVars, discVars, mainVars, resVars, linkVars, coverVars>>
notCover == <<applyVars, navVars, discVars, mainVars, resVars, linkVars, intentVars>>

(***************************************************************************)
(* Python values                                                           *)
(***************************************************************************)
\* None, as dict.get returns it for a missing key without a default.
None == "<None>"

\* dict.get(key, default)
Get(d, key, default) == IF key \in DOMAIN d THEN d[key] ELSE default

\* str(v): None prints as the four letters "None"
Str(v) == IF v = None THEN "None" ELSE v

\* a or b, on strings and None
Or(a, b) == IF a = "" \/ a = None THEN b ELSE a

(***************************************************************************)
(* URLs are strings cut into pieces; a piece is the unit "in" looks for.   *)
(***************************************************************************)
LowerPiece(p) ==
    CASE p = "GREENHOUSE.IO" -> "greenhouse.io"
      [] p = "Lever.Co" -> "lever.co"
      [] p = "INTERN" -> "intern"
      [] p = "Intern" -> "intern"
      [] p = "Interns" -> "interns"
      [] p = "Internship" -> "internship"
      [] p = "Internships" -> "internships"
      [] p = "Co-op" -> "co-op"
      [] p = "Data" -> "data"
      [] p = "DATA" -> "data"
      [] p = "Acme" -> "acme"
      [] p = "Initech" -> "initech"
      [] p = "Portal" -> "portal"
      [] p = "About" -> "about"
      [] p = "Jobs" -> "jobs"
      [] p = "Software" -> "software"
      [] p = "Engineer" -> "engineer"
      [] p = "Careers" -> "careers"
      [] OTHER -> p

\* str.lower()
Lower(u) == [i \in DOMAIN u |-> LowerPiece(u[i])]

\* fragment in u
In(fragment, u) == \E i \in DOMAIN u : u[i] = fragment

\* _platform_for
PlatformFor(url) ==
    LET u == Lower(url) IN
    IF In("greenhouse.io", u) THEN "greenhouse"
    ELSE IF In("lever.co", u) THEN "lever"
    ELSE "other"

(***************************************************************************)
(* Fixtures: postings, their remote pages, applicants                      *)
(***************************************************************************)
GH_URL    == <<"https://boards.", "greenhouse.io", "/acme/jobs/12345">>
GH_UPPER  == <<"https://boards.", "GREENHOUSE.IO", "/Globex/jobs/777">>
LEVER_URL == <<"https://jobs.", "lever.co", "/initech/4f2a">>
ICIMS_URL == <<"https://careers-umbrella.", "icims.com", "/jobs/1">>
NO_URL    == <<>>

\* A posting dict may lack keys: item.get(key, "") then yields "" (for a
\* link: the empty string, NO_URL).
Items ==
    { [link |-> GH_URL,    title |-> "Software Engineer Intern", company |-> "Acme"],
      [link |-> LEVER_URL, title |-> "Data Intern"],
      [link |-> ICIMS_URL, title |-> "QA Intern", company |-> "Umbrella"],
      [link |-> GH_UPPER,  company |-> "Globex"],
      [title |-> "Unlinked Intern", company |-> "Hooli"] }

MaxBatch == 3

Batches == UNION { [1..n -> Items] : n \in 0..MaxBatch }

\* The selectors that match a control on the remote page (locator.count() > 0).
FormOf(url) ==
    CASE url = GH_URL ->
           { "input[type=\"file\"]",
             "input[name=\"first_name\"]", "input[name~=\"first\"]",
             "input[name=\"lastName\"]",
             "input[type=\"email\"]", "input[name=\"email\"]",
             "textarea",
             "button[type=\"submit\"]", "button:has-text(\"Apply\")" }
      [] url = LEVER_URL ->
           { "input[type=\"file\"][name=\"resume\"]", "input[type=\"file\"]",
             "input[name=\"name.first\"]",
             "input[name=\"email\"]",
             "input[type=\"tel\"]",
             "textarea[name*=\"cover\"]", "textarea",
             "button:has-text(\"Submit\")" }
      [] OTHER -> {}

LONG_COVER == "x * 4001"

\* cover_text[:4000]
First4000(c) == IF c = LONG_COVER THEN "x * 4000" ELSE c

\* (who, resume_bytes, cover_text) as the caller passes them
Applicants ==
    { [who |-> [first_name |-> "Ada", last_name |-> "Lovelace",
                email |-> "ada@example.org", phone |-> "555-0100"],
       resume |-> "%PDF", cover |-> "Dear Hiring Team"],
      [who |-> [name |-> "Ada Lovelace", email |-> "ada@example.org",
                phone |-> "", linkedin |-> "in/ada"],
       resume |-> "", cover |-> LONG_COVER] }

(***************************************************************************)
(* The fill sequence of _apply_greenhouse / _apply_lever                   *)
(***************************************************************************)
Stages == <<"resume", "first_name", "last_name", "email", "phone", "cover", "submit">>

GreenhouseSelectors(st) ==
    CASE st = "resume" -> <<"input[name=\"resume\"]",
                            "input[type=\"file\"][name*=\"resume\"]",
                            "input[type=\"file\"]">>
      [] st = "first_name" -> <<"input[name=\"first_name\"]", "input[name=\"firstName\"]",
                                "input[name~=\"first\"]">>
      [] st = "last_name" -> <<"input[name=\"last_name\"]", "input[name=\"lastName\"]",
                               "input[name~=\"last\"]">>
      [] st = "email" -> <<"input[type=\"email\"]", "input[name=\"email\"]",
                           "input[name=\"email_address\"]">>
      [] st = "phone" -> <<"input[type=\"tel\"]", "input[name=\"phone\"]",
                           "input[name=\"phone_number\"]">>
      [] st = "cover" -> <<"textarea[name*=\"cover\"]", "textarea[name=\"cover_letter\"]",
                           "textarea">>
      [] st = "submit" -> <<"button[type=\"submit\"]", "input[type=\"submit\"]",
                            "button:has-text(\"Submit\")", "button:has-text(\"Apply\")">>

LeverSelectors(st) ==
    CASE st = "resume" -> <<"input[type=\"file\"][name=\"resume\"]", "input[type=\"file\"]">>
      [] st = "first_name" -> <<"input[name=\"name.first\"]", "input[name=\"firstName\"]",
                                "input[placeholder*=\"First\"]">>
      [] st = "last_name" -> <<"input[name=\"name.last\"]", "input[name=\"lastName\"]",
                               "input[placeholder*=\"Last\"]">>
      [] st = "email" -> <<"input[type=\"email\"]", "input[name=\"email\"]">>
      [] st = "phone" -> <<"input[type=\"tel\"]", "input[name=\"phone\"]">>
      [] st = "cover" -> <<"textarea[name=\"coverLetterText\"]", "textarea[name*=\"cover\"]",
                           "textarea">>
      [] st = "submit" -> <<"button[type=\"submit\"]", "button:has-text(\"Submit\")",
                            "button:has-text(\"Apply\")">>

Selectors(plat, st) ==
    IF plat = "greenhouse" THEN GreenhouseSelectors(st) ELSE LeverSelectors(st)

\* key.replace("_name", "")
StripName(key) ==
    CASE key = "first_name" -> "first"
      [] key = "last_name" -> "last"
      [] OTHER -> key

\* what _apply_greenhouse types into the control of `key`
GreenhouseValue(w, key) == Str(Or(Get(w, key, ""), Get(w, StripName(key), None)))

\* what _apply_lever types into the control of `key`
LeverValue(w, key) == Str(Get(w, key, ""))

\* the argument of set_input_files / fill in stage st (click takes none)
StageValue(plat, st, w, file, cover) ==
    CASE st = "resume" -> file
      [] st = "cover" -> First4000(cover)
      [] st = "submit" -> ""
      [] OTHER -> IF plat = "greenhouse" THEN GreenhouseValue(w, st) ELSE LeverValue(w, st)

(***************************************************************************)
(* Values of the navigator's state                                         *)
(***************************************************************************)
\* final_url = None
NONE_URL == <<"<None>">>

\* `links` before its first assignment
Unbound == << <<"<unbound>">> >>

NoChoice == [asked |-> NONE_URL, revisit |-> FALSE, seen |-> {}, offered |-> <<>>,
             next |-> NONE_URL]

NoResult == [final_url |-> NONE_URL, links |-> <<>>]

\* `decision` before its first assignment
NoDecision == [action |-> "<unbound>"]

\* no call of navigate_to_jobs has ended
NoFirst == [pc |-> "", result |-> NoResult, exit |-> ""]

\* no LLMNavigator exists
NavOff ==
    /\ pages = <<>>
    /\ extractor = ""
    /\ max_hops = 0
    /\ start_url = NONE_URL
    /\ visited_urls = {}
    /\ fetcher_visited = {}
    /\ current_url = NONE_URL
    /\ hop_count = 0
    /\ links = Unbound
    /\ nav_pc = "off"
    /\ fetched = <<>>
    /\ path = <<>>
    /\ choice = NoChoice
    /\ nav_result = NoResult
    /\ nav_exit = ""
    /\ decision = NoDecision
    /\ replay = FALSE
    /\ run = 0
    /\ reuse = FALSE
    /\ oracle = <<>>
    /\ first = NoFirst
    /\ consulted = <<>>

\* no discovery function runs
DiscOff ==
    /\ entry = ""
    /\ dpc = "off"
    /\ landing = <<>>
    /\ sources = <<>>
    /\ src_i = 0
    /\ all_rows = <<>>
    /\ total = 0
    /\ df = <<>>
    /\ failed_src = {}
    /\ d_exc = "none"
    /\ site = <<>>
    /\ max_pages = 0
    /\ work = <<>>
    /\ visited = {}
    /\ results = <<>>
    /\ seeds = <<>>
    /\ limit = 0
    /\ added = 0
    /\ read = <<>>
    /\ root_url = NO_URL
    /\ offers = <<>>

\* _cache = {"at": 0.0, "df": None}
EmptyCache == [at |-> 0, df |-> None]

\* no request has reached the links service
MainOff ==
    /\ clock = 0
    /\ cache = EmptyCache
    /\ calls = <<>>

NoTags == [app |-> <<>>, auto |-> <<>>]

\* no URL is given to the resolvers
ResOff ==
    /\ probe = <<>>
    /\ tags = NoTags

\* no crawl of the CSUSB hosts runs
LinksOff ==
    /\ allowed_hosts = {}
    /\ web = <<>>
    /\ flaky = {}
    /\ lk_start = <<>>
    /\ lk_max_pages = 0
    /\ queue = <<>>
    /\ seen_pages = {}
    /\ collected = <<>>
    /\ seen_links = {}
    /\ lk_current = <<>>
    /\ lk_pc = "off"
    /\ gotos = <<>>
    /\ lk_out = <<>>
    /\ sync_out = <<>>

\* classify_intent is not called
IntentOff ==
    /\ q_text = <<>>
    /\ llm_reply = [dict |-> FALSE, intent |-> ""]
    /\ intent = "off"

\* no cover-letter conversation exists
CoverOff ==
    /\ want_cover_letter = None
    /\ collecting_cover_profile = FALSE
    /\ cover_profile = <<>>
    /\ cover_target_url = ""
    /\ resume_text = ""
    /\ asked_for_resume = FALSE
    /\ pending_company_query = ""
    /\ planner = ""
    /\ cv_pc = "off"
    /\ user_msg = ""
    /\ depth = 0
    /\ asked_field = ""
    /\ answered = {}
    /\ generated = FALSE
    /\ letter_target = ""
    /\ ops = 0

(***************************************************************************)
(* auto_apply_batch                                                        *)
(***************************************************************************)
\* filled - the controls the loop of this stage acted on (uploaded to, typed
\*          into, clicked)
NoLast == [stage |-> "", tried |-> 0, used |-> 0, value |-> "", fault |-> "none",
           filled |-> {}]

\* History of the running attempt, kept for stating properties:
\*   touched   - some page operation (goto, upload, fill, click) was issued
\*   goto      - how page.goto ended: "none" (not called), "ok", or the exception
\*   swallowed - worst failure an `except: pass` of the filler has eaten
\*   steps     - the steps of the filler begun so far, in the order they began
NoTrail == [touched |-> FALSE, goto |-> "none", swallowed |-> "none", steps |-> <<>>]

GotoExceptions == {"Error", "TimeoutError"}

\* f"error: {e}"
ErrorStatus(e) ==
    CASE e = "TimeoutError" -> "error: Timeout 20000ms exceeded."
      [] e = "Error" -> "error: net::ERR_CONNECTION_REFUSED"

url == Get(selected[item_i], "link", NO_URL)

\* page.url after a submit click: the form page, or the page it led to
Landing(u) == u \o <<"/confirmation">>

InitApply ==
    /\ NavOff
    /\ DiscOff
    /\ MainOff
    /\ ResOff
    /\ LinksOff
    /\ IntentOff
    /\ CoverOff
    /\ selected \in Batches
    /\ \E a \in Applicants :
         /\ who = a.who
         /\ resume_bytes = a.resume
         /\ cover_text = a.cover
    /\ resume_path = ""
    /\ tmp_files = {}
    /\ out = <<>>
    /\ pc = "save_temp_file"
    /\ item_i = 0
    /\ browser = "none"
    /\ contexts = <<>>
    /\ ctx = 0
    /\ platform = ""
    /\ status = ""
    /\ dest = NO_URL
    /\ page_url = NO_URL
    /\ stage = 0
    /\ last = NoLast
    /\ trail = NoTrail
    /\ exc = "none"

\* _save_temp_file: no file for an empty blob, else a fresh temporary file
SaveTempFile ==
    /\ pc = "save_temp_file"
    /\ IF resume_bytes = ""
         THEN resume_path' = "" /\ tmp_files' = tmp_files
         ELSE resume_path' = "/tmp/tmp1.pdf" /\ tmp_files' = tmp_files \cup {"/tmp/tmp1.pdf"}
    /\ pc' = "launch"
    /\ UNCHANGED <<selected, who, resume_bytes, cover_text, out, item_i, browser,
                   contexts, ctx, platform, status, dest, page_url, stage, last,
                   trail, exc>>
    /\ UNCHANGED notApply

\* an exception leaves the body of `async with`: nothing after it runs
Raise(e) == exc' = e /\ pc' = "unwind"

\* p.chromium.launch(...)
Launch ==
    /\ pc = "launch"
    /\ \/ browser' = "open" /\ pc' = "loop" /\ exc' = exc
       \/ browser' = browser /\ Raise("launch")
    /\ UNCHANGED <<selected, who, resume_bytes, cover_text, resume_path, tmp_files,
                   out, item_i, contexts, ctx, platform, status, dest, page_url,
                   stage, last, trail>>
    /\ UNCHANGED notApply

\* for item in selected: ... ; after the last item the loop ends
LoopNext ==
    /\ pc = "loop"
    /\ IF item_i < Len(selected)
         THEN item_i' = item_i + 1 /\ pc' = "new_context"
         ELSE item_i' = item_i /\ pc' = "browser_close"
    /\ ctx' = 0 /\ platform' = "" /\ status' = "" /\ dest' = NO_URL
    /\ page_url' = NO_URL /\ stage' = 0 /\ last' = NoLast /\ trail' = NoTrail
    /\ UNCHANGED <<selected, who, resume_bytes, cover_text, resume_path, tmp_files,
                   out, browser, contexts, exc>>
    /\ UNCHANGED notApply

\* ctx = await browser.new_context()      (outside the try of _apply_one)
NewContext ==
    /\ pc = "new_context"
    /\ \/ /\ contexts' = Append(contexts, "open")
          /\ ctx' = Len(contexts) + 1
          /\ pc' = "new_page" /\ exc' = exc
       \/ /\ Raise("new_context")
          /\ UNCHANGED <<contexts, ctx>>
    /\ UNCHANGED <<selected, who, resume_bytes, cover_text, resume_path, tmp_files,
                   out, item_i, browser, platform, status, dest, page_url, stage,
                   last, trail>>
    /\ UNCHANGED notApply

\* page = await ctx.new_page()            (outside the try of _apply_one)
NewPage ==
    /\ pc = "new_page"
    /\ \/ pc' = "dispatch" /\ exc' = exc
       \/ Raise("new_page")
    /\ UNCHANGED <<selected, who, resume_bytes, cover_text, resume_path, tmp_files,
                   out, item_i, browser, contexts, ctx, platform, status, dest,
                   page_url, stage, last, trail>>
    /\ UNCHANGED notApply

\* Dispatch with the final else missing: every non-greenhouse URL is sent to
\* the lever filler
Dispatch_NoElse ==
    /\ pc = "dispatch"
    /\ platform' = PlatformFor(url)
    /\ pc' = "goto"
    /\ UNCHANGED <<status, dest>>
    /\ UNCHANGED <<selected, who, resume_bytes, cover_text, resume_path, tmp_files,
                   out, item_i, browser, contexts, ctx, page_url, stage, last,
                   trail, exc>>
    /\ UNCHANGED notApply

\* platform = _platform_for(url); the if / elif / else of the try block
Dispatch ==
    /\ pc = "dispatch"
    /\ platform' = PlatformFor(url)
    /\ IF platform' \in {"greenhouse", "lever"}
         THEN pc' = "goto" /\ UNCHANGED <<status, dest>>
         ELSE pc' = "finally" /\ status' = "manual_required" /\ dest' = url
    /\ UNCHANGED <<selected, who, resume_bytes, cover_text, resume_path, tmp_files,
                   out, item_i, browser, contexts, ctx, page_url, stage, last,
                   trail, exc>>
    /\ UNCHANGED notApply

\* the handler reporting page.url instead of the target URL
Except_PageUrl(e) == status' = ErrorStatus(e) /\ dest' = page_url /\ pc' = "finally"

\* except Exception as e: status = f"error: {e}"; dest = url
Except(e) == status' = ErrorStatus(e) /\ dest' = url /\ pc' = "finally"

\* await page.goto(url, wait_until=..., timeout=COMMON_TIMEOUT)
Goto ==
    /\ pc = "goto"
    /\ \/ /\ page_url' = url
          /\ trail' = [trail EXCEPT !.touched = TRUE, !.goto = "ok",
                                    !.steps = Append(@, "navigate")]
          /\ stage' = 1
          /\ pc' = "fill"
          /\ UNCHANGED <<status, dest>>
       \/ \E e \in GotoExceptions :
          /\ trail' = [trail EXCEPT !.touched = TRUE, !.goto = e,
                                    !.steps = Append(@, "navigate")]
          /\ Except(e)
          /\ UNCHANGED <<page_url, stage>>
    /\ UNCHANGED <<selected, who, resume_bytes, cover_text, resume_path, tmp_files,
                   out, item_i, browser, contexts, ctx, platform, last, exc>>
    /\ UNCHANGED notApply

Worse(a, b) ==
    IF "timeout" \in {a, b} THEN "timeout"
    ELSE IF "raised" \in {a, b} THEN "raised" ELSE "none"

\* A selector loop without its `break`: every selector is tried and every
\* matching control is acted on
FillStage_NoBreak ==
    /\ pc = "fill"
    /\ stage \in 1..Len(Stages)
    /\ LET st == Stages[stage]
           sels == Selectors(platform, st)
           matching == {j \in 1..Len(sels) : sels[j] \in FormOf(url)}
           k == IF matching = {} THEN 0
                ELSE CHOOSE j \in matching : \A m \in matching : j <= m
       IN /\ last' = [stage |-> st, tried |-> Len(sels), used |-> k,
                      value |-> IF k = 0 THEN ""
                                ELSE StageValue(platform, st, who, resume_path, cover_text),
                      fault |-> "none",
                      filled |-> {sels[j] : j \in matching}]
          /\ trail' = [trail EXCEPT !.touched = TRUE, !.steps = Append(@, st)]
          /\ IF st = "submit" /\ k # 0
               THEN page_url' \in {page_url, Landing(page_url)}
               ELSE page_url' = page_url
    /\ stage' = stage + 1
    /\ UNCHANGED <<selected, who, resume_bytes, cover_text, resume_path, tmp_files,
                   out, pc, item_i, browser, contexts, ctx, platform, status,
                   dest, exc>>
    /\ UNCHANGED notApply

\* A selector loop without its `try`: a failing attempt leaves the filler and
\* reaches the `except Exception` of _apply_one
FillStage_Unguarded ==
    /\ pc = "fill"
    /\ stage \in 1..Len(Stages)
    /\ LET st == Stages[stage]
           sels == Selectors(platform, st)
           matching == {j \in 1..Len(sels) : sels[j] \in FormOf(url)}
       IN \E k \in matching \cup {0}, f \in {"none", "raised", "timeout"} :
            LET tried == IF k = 0 THEN Len(sels) ELSE k
                failed == {j \in matching : j < tried \/ k = 0}
                idle == (1..tried) \ matching
            IN /\ failed # {} => f # "none"
               /\ f # "none" => failed # {} \/ idle # {}
               /\ last' = [stage |-> st, tried |-> tried, used |-> k,
                           value |-> IF k = 0 THEN ""
                                     ELSE StageValue(platform, st, who, resume_path, cover_text),
                           fault |-> f,
                           filled |-> IF k = 0 \/ f # "none" THEN {} ELSE {sels[k]}]
               /\ trail' = [trail EXCEPT !.touched = TRUE, !.steps = Append(@, st)]
               /\ page_url' = page_url
               /\ IF f = "none"
                    THEN UNCHANGED <<pc, status, dest>>
                    ELSE Except(IF f = "timeout" THEN "TimeoutError" ELSE "Error")
    /\ stage' = stage + 1
    /\ UNCHANGED <<selected, who, resume_bytes, cover_text, resume_path, tmp_files,
                   out, item_i, browser, contexts, ctx, platform, exc>>
    /\ UNCHANGED notApply

\* One `for sel in [...]` loop of a filler: the selectors are tried in list
\* order; the first whose locator counts a control and whose action (upload,
\* fill, click) goes through ends the loop; an attempt that raises (count or
\* action, a Playwright timeout included) is eaten by `except: pass` and the
\* next selector is tried.  k is the selector that went through, 0 if none.
FillStage ==
    /\ pc = "fill"
    /\ stage \in 1..Len(Stages)
    /\ LET st == Stages[stage]
           sels == Selectors(platform, st)
           matching == {j \in 1..Len(sels) : sels[j] \in FormOf(url)}
       IN \E k \in matching \cup {0}, f \in {"none", "raised", "timeout"} :
            LET tried == IF k = 0 THEN Len(sels) ELSE k
                failed == {j \in matching : j < tried \/ k = 0}
                idle == (1..tried) \ matching
            IN /\ failed # {} => f # "none"
               /\ f # "none" => failed # {} \/ idle # {}
               /\ last' = [stage |-> st, tried |-> tried, used |-> k,
                           value |-> IF k = 0 THEN ""
                                     ELSE StageValue(platform, st, who, resume_path, cover_text),
                           fault |-> f,
                           filled |-> IF k = 0 THEN {} ELSE {sels[k]}]
               /\ trail' = [trail EXCEPT !.touched = TRUE,
                                         !.swallowed = Worse(@, f),
                                         !.steps = Append(@, st)]
               /\ IF st = "submit" /\ k # 0
                    THEN page_url' \in {page_url, Landing(page_url)}
                    ELSE page_url' = page_url
    /\ stage' = stage + 1
    /\ UNCHANGED <<selected, who, resume_bytes, cover_text, resume_path, tmp_files,
                   out, pc, item_i, browser, contexts, ctx, platform, status,
                   dest, exc>>
    /\ UNCHANGED notApply

\* return page.url ; status = "submitted_or_attempted"
FillerReturn ==
    /\ pc = "fill"
    /\ stage = Len(Stages) + 1
    /\ dest' = page_url
    /\ status' = "submitted_or_attempted"
    /\ pc' = "finally"
    /\ UNCHANGED <<selected, who, resume_bytes, cover_text, resume_path, tmp_files,
                   out, item_i, browser, contexts, ctx, platform, page_url, stage,
                   last, trail, exc>>
    /\ UNCHANGED notApply

\* ctx.close() at the end of the try body instead of in a finally: an attempt
\* that ended in the except clause keeps its context
Finally_NotOnError ==
    /\ pc = "finally"
    /\ contexts' = IF status \in {ErrorStatus(e) : e \in GotoExceptions}
                     THEN contexts ELSE [contexts EXCEPT ![ctx] = "closed"]
    /\ pc' = "append" /\ exc' = exc
    /\ UNCHANGED <<selected, who, resume_bytes, cover_text, resume_path, tmp_files,
                   out, item_i, browser, ctx, platform, status, dest, page_url,
                   stage, last, trail>>
    /\ UNCHANGED notApply

\* finally: await ctx.close()    -- an exception of close leaves _apply_one
Finally ==
    /\ pc = "finally"
    /\ \/ /\ contexts' = [contexts EXCEPT ![ctx] = "closed"]
          /\ pc' = "append" /\ exc' = exc
       \/ /\ contexts' \in {contexts, [contexts EXCEPT ![ctx] = "closed"]}
          /\ Raise("ctx_close")
    /\ UNCHANGED <<selected, who, resume_bytes, cover_text, resume_path, tmp_files,
                   out, item_i, browser, ctx, platform, status, dest, page_url,
                   stage, last, trail>>
    /\ UNCHANGED notApply

\* return {"platform", "status", "final_url"}; res.update(title, company, url)
Result(item) ==
    [platform |-> platform, status |-> status, final_url |-> dest,
     title |-> Get(item, "title", ""), company |-> Get(item, "company", ""),
     url |-> Get(item, "link", NO_URL)]

\* a loop that drops the result of a failed attempt
AppendResult_SkipErrors ==
    /\ pc = "append"
    /\ out' = IF status \in {ErrorStatus(e) : e \in GotoExceptions}
                THEN out ELSE Append(out, Result(selected[item_i]))
    /\ pc' = "loop"
    /\ UNCHANGED <<selected, who, resume_bytes, cover_text, resume_path, tmp_files,
                   item_i, browser, contexts, ctx, platform, status, dest, page_url,
                   stage, last, trail, exc>>
    /\ UNCHANGED notApply

\* out.append(res)
AppendResult ==
    /\ pc = "append"
    /\ out' = Append(out, Result(selected[item_i]))
    /\ pc' = "loop"
    /\ UNCHANGED <<selected, who, resume_bytes, cover_text, resume_path, tmp_files,
                   item_i, browser, contexts, ctx, platform, status, dest, page_url,
                   stage, last, trail, exc>>
    /\ UNCHANGED notApply

\* await browser.close()
BrowserClose ==
    /\ pc = "browser_close"
    /\ \/ /\ browser' = "closed"
          /\ contexts' = [c \in DOMAIN contexts |-> "closed"]
          /\ pc' = "exit" /\ exc' = exc
       \/ /\ Raise("browser_close")
          /\ UNCHANGED <<browser, contexts>>
    /\ UNCHANGED <<selected, who, resume_bytes, cover_text, resume_path, tmp_files,
                   out, item_i, ctx, platform, status, dest, page_url, stage, last,
                   trail>>
    /\ UNCHANGED notApply

\* __aexit__ of `async with async_playwright()`: Playwright stops its driver,
\* which ends every browser it launched and with it the browser's contexts.
StopPlaywright ==
    /\ browser' = IF browser = "open" THEN "closed" ELSE browser
    /\ contexts' = [c \in DOMAIN contexts |-> "closed"]

\* leaving `async with` normally
ExitPlaywright ==
    /\ pc = "exit"
    /\ StopPlaywright
    /\ pc' = "remove"
    /\ UNCHANGED <<selected, who, resume_bytes, cover_text, resume_path, tmp_files,
                   out, item_i, ctx, platform, status, dest, page_url, stage, last,
                   trail, exc>>
    /\ UNCHANGED notApply

\* if resume_path and os.path.exists(resume_path): os.remove(resume_path)
RemoveTemp ==
    /\ pc = "remove"
    /\ tmp_files' = IF resume_path # "" THEN tmp_files \ {resume_path} ELSE tmp_files
    /\ pc' = "returned"
    /\ UNCHANGED <<selected, who, resume_bytes, cover_text, resume_path, out,
                   item_i, browser, contexts, ctx, platform, status, dest,
                   page_url, stage, last, trail, exc>>
    /\ UNCHANGED notApply

\* leaving `async with` with an exception: the same stop, then the exception
\* leaves auto_apply_batch; lines 129-132 are not reached
Unwind ==
    /\ pc = "unwind"
    /\ StopPlaywright
    /\ pc' = "raised"
    /\ UNCHANGED <<selected, who, resume_bytes, cover_text, resume_path, tmp_files,
                   out, item_i, ctx, platform, status, dest, page_url, stage, last,
                   trail, exc>>
    /\ UNCHANGED notApply

NextApply ==
    \/ SaveTempFile \/ Launch \/ LoopNext \/ NewContext \/ NewPage \/ Dispatch
    \/ Goto \/ FillStage \/ FillerReturn \/ Finally \/ AppendResult
    \/ BrowserClose \/ ExitPlaywright \/ RemoveTemp \/ Unwind

SpecApply == InitApply /\ [][NextApply]_vars

(***************************************************************************)
(* LLMNavigator.navigate_to_jobs                                           *)
(***************************************************************************)
\* A URL is <<origin, path>>; a reference without origin is <<path>>; the
\* oracle may pad its answer with blanks, which strip() removes.
S1 == <<"https://www.csusb.edu", "/cse/internships">>
A1 == <<"https://acme.com", "/careers">>
A2 == <<"https://acme.com", "/jobs">>
A3 == <<"https://acme.com", "/students">>
A4 == <<"https://acme.com", "/university">>
A5 == <<"https://acme.com", "/search">>
GONE == <<"https://elsewhere.example", "/jobs">>
REL_JOBS == <<"/jobs">>
PADDED_A1 == <<" ", "https://acme.com", "/careers", " ">>
BLANK == <<" ">>
NULL_URL == <<"<null>">>

Origins == {"https://www.csusb.edu", "https://acme.com", "https://elsewhere.example"}

\* str.strip()
Strip(u) ==
    LET a == IF Len(u) > 0 /\ u[1] = " " THEN Tail(u) ELSE u
    IN IF Len(a) > 0 /\ a[Len(a)] = " " THEN SubSeq(a, 1, Len(a) - 1) ELSE a

\* next_url.startswith('http')
StartsWithHttp(u) == Len(u) > 0 /\ u[1] \in Origins

\* urljoin(base, ref) for a reference that is an absolute path
UrlJoin(base, ref) == <<base[1]>> \o ref

\* A remote page: the links a parse of it yields (absolute, http, no URL
\* twice), and the three counts has_job_listings looks at.
Page(ls, indicators, cards, job_links) ==
    [links |-> ls, indicators |-> indicators, cards |-> cards, job_links |-> job_links]

Everything == <<S1, A1, A2, A3, A4, A5>>

\* a site whose pages all link to each other, none of them a listing
Mesh == [u \in {S1, A1, A2, A3, A4, A5} |-> Page(Everything, 0, 1, 2)]

\* a chain with back links that ends in a page of job cards
Chain ==
    (S1 :> Page(<<A1>>, 0, 0, 1)) @@ (A1 :> Page(<<S1, A2>>, 0, 1, 2))
    @@ (A2 :> Page(<<A1, S1, A3>>, 0, 0, 2)) @@ (A3 :> Page(<<A3, A4>>, 0, 1, 0))
    @@ (A4 :> Page(<<A5, GONE>>, 0, 0, 0)) @@ (A5 :> Page(<<A1>>, 0, 2, 0))

\* a landing page that already shows listings, a page without links, and a
\* page whose only sign of jobs is its link count
Shallow ==
    (S1 :> Page(<<A1, A2, A3>>, 1, 0, 0)) @@ (A1 :> Page(<<>>, 0, 0, 0))
    @@ (A2 :> Page(<<>>, 2, 0, 0)) @@ (A3 :> Page(<<A1, A2>>, 0, 0, 3))

\* two pages that link only to each other
Loop ==
    (S1 :> Page(<<A1>>, 0, 0, 0)) @@ (A1 :> Page(<<S1>>, 0, 0, 0))

Worlds == {Mesh, Chain, Shallow, Loop}

StartUrls == {S1, A1, GONE}

MaxHopsBound == 5

\* largest max_hops of the runs that are replayed
ReplayHops == 3

\* has_job_listings
HasJobListings(page) ==
    page.indicators >= 1 \/ page.cards >= 2 \/ page.job_links >= 3

\* PlaywrightFetcher.fetch_html as fetch_url sees it: None for a URL this
\* fetcher was asked for before, None when the page cannot be loaded
FetchHtml(u, seen) ==
    IF u \in seen THEN None
    ELSE IF u \in DOMAIN pages THEN "<html>" ELSE None

\* extract_text_and_links(html, base_url) -> (page_text, links), the call
\* navigate_to_jobs makes
ExtractLinks(u) == pages[u].links

\* What get_llm_navigation_decision can return: the parsed JSON object of
\* the model's answer, or the stop decision when the call or the parse fails.
OracleUrls ==
    {S1, A1, A2, A3, A4, A5, GONE, REL_JOBS, PADDED_A1, BLANK, NO_URL, NULL_URL}

LLM_ERROR == [action |-> "stop", reasoning |-> "LLM decision error"]

Decisions ==
    {LLM_ERROR, [action |-> "found_jobs"], [action |-> "stop"], [reasoning |-> "?"],
     [action |-> "visit_url"]}
    \cup {[action |-> "visit_url", url |-> u] : u \in OracleUrls}

\* auto_apply_batch is not called
ApplyOff ==
    /\ selected = <<>> /\ who = <<>> /\ resume_bytes = "" /\ cover_text = ""
    /\ resume_path = "" /\ tmp_files = {} /\ out = <<>> /\ pc = "off"
    /\ item_i = 0 /\ browser = "none" /\ contexts = <<>> /\ ctx = 0
    /\ platform = "" /\ status = "" /\ dest = NO_URL /\ page_url = NO_URL
    /\ stage = 0 /\ last = NoLast /\ trail = NoTrail /\ exc = "none"

\* LLMNavigator(max_hops) just constructed, navigate_to_jobs(start_url, ...)
\* about to be called, once (rep = FALSE) or twice
NewNavigator(hops, rep) ==
    /\ pages \in Worlds
    /\ extractor \in {"PlaywrightFetcher", "two_argument"}
    /\ max_hops \in 0..hops
    /\ replay = rep
    /\ run = 1
    /\ reuse = FALSE
    /\ oracle = <<>>
    /\ first = NoFirst
    /\ decision = NoDecision
    /\ consulted = <<>>
    /\ start_url \in StartUrls
    /\ visited_urls = {}
    /\ fetcher_visited = {}
    /\ current_url = NONE_URL
    /\ hop_count = 0
    /\ links = Unbound
    /\ nav_pc = "start"
    /\ fetched = <<>>
    /\ path = <<>>
    /\ choice = NoChoice
    /\ nav_result = NoResult
    /\ nav_exit = ""

InitNav ==
    /\ ApplyOff
    /\ DiscOff
    /\ MainOff
    /\ ResOff
    /\ LinksOff
    /\ IntentOff
    /\ CoverOff
    /\ NewNavigator(MaxHopsBound, FALSE)

\* the same, for two calls in a row
InitReplay ==
    /\ ApplyOff
    /\ DiscOff
    /\ MainOff
    /\ ResOff
    /\ LinksOff
    /\ IntentOff
    /\ CoverOff
    /\ NewNavigator(ReplayHops, TRUE)

\* return final_url, links
Return(u, ls, why) ==
    /\ nav_result' = [final_url |-> u, links |-> ls]
    /\ nav_exit' = why
    /\ nav_pc' = "returned"

\* an exception leaves navigate_to_jobs
NavRaise(e) ==
    /\ nav_exit' = e
    /\ nav_pc' = "raised"
    /\ nav_result' = nav_result

\* current_url = start_url; hop_count = 0; self.visited_urls.add(current_url)
NavStart ==
    /\ nav_pc = "start"
    /\ current_url' = start_url
    /\ hop_count' = 0
    /\ visited_urls' = visited_urls \cup {start_url}
    /\ path' = <<start_url>>
    /\ nav_pc' = "while"
    /\ UNCHANGED <<pages, extractor, max_hops, start_url, replay, run, reuse, first, consulted,
                   fetcher_visited, links, fetched, choice, nav_result, nav_exit,
                   decision, oracle>>
    /\ UNCHANGED notNav

\* the loop test off by one: while hop_count <= self.max_hops
While_OffByOne ==
    /\ nav_pc = "while"
    /\ IF hop_count <= max_hops
         THEN /\ hop_count' = hop_count + 1
              /\ nav_pc' = "fetch"
              /\ UNCHANGED <<nav_result, nav_exit>>
         ELSE /\ hop_count' = hop_count
              /\ IF links = Unbound
                   THEN NavRaise("UnboundLocalError")
                   ELSE Return(current_url, links, "max_hops")
    /\ UNCHANGED <<pages, extractor, max_hops, start_url, replay, run, reuse, first, consulted,
                   visited_urls, fetcher_visited, current_url, links, fetched, path,
                   choice, decision, oracle>>
    /\ UNCHANGED notNav

\* while hop_count < self.max_hops: hop_count += 1 ...
\* after the loop: return current_url, links
While ==
    /\ nav_pc = "while"
    /\ IF hop_count < max_hops
         THEN /\ hop_count' = hop_count + 1
              /\ nav_pc' = "fetch"
              /\ UNCHANGED <<nav_result, nav_exit>>
         ELSE /\ hop_count' = hop_count
              /\ IF links = Unbound
                   THEN NavRaise("UnboundLocalError")
                   ELSE Return(current_url, links, "max_hops")
    /\ UNCHANGED <<pages, extractor, max_hops, start_url, replay, run, reuse, first, consulted,
                   visited_urls, fetcher_visited, current_url, links, fetched, path,
                   choice, decision, oracle>>
    /\ UNCHANGED notNav

\* html = self.fetch_url(current_url); if not html: return None, []
Fetch ==
    /\ nav_pc = "fetch"
    /\ fetched' = Append(fetched, current_url)
    /\ fetcher_visited' = fetcher_visited \cup {current_url}
    /\ IF FetchHtml(current_url, fetcher_visited) = None
         THEN Return(NONE_URL, <<>>, "fetch_failed")
         ELSE nav_pc' = "extract" /\ UNCHANGED <<nav_result, nav_exit>>
    /\ UNCHANGED <<pages, extractor, max_hops, start_url, replay, run, reuse, first, consulted,
                   visited_urls, current_url, hop_count, links, path, choice,
                   decision, oracle>>
    /\ UNCHANGED notNav

\* navigate_to_jobs without the has_job_listings tests: a page with links
\* always goes to the oracle
Extract_NoHeuristic ==
    /\ nav_pc = "extract"
    /\ IF extractor = "PlaywrightFetcher"
         THEN /\ NavRaise("TypeError")
              /\ links' = links
         ELSE /\ links' = ExtractLinks(current_url)
              /\ IF links' = <<>>
                   THEN Return(NONE_URL, <<>>, "no_links")
                   ELSE nav_pc' = "decide" /\ UNCHANGED <<nav_result, nav_exit>>
    /\ UNCHANGED <<pages, extractor, max_hops, start_url, replay, run, reuse, first, consulted,
                   visited_urls, fetcher_visited, current_url, hop_count, fetched,
                   path, choice, decision, oracle>>
    /\ UNCHANGED notNav

\* page_text, links = self.extract_text_and_links(html, current_url), then
\* the two returns that need no oracle: a page without links, a page that
\* has_job_listings takes for a listing
Extract ==
    /\ nav_pc = "extract"
    /\ IF extractor = "PlaywrightFetcher"
         THEN \* extract_text_and_links(self, url) called with (html, base_url)
              /\ NavRaise("TypeError")
              /\ links' = links
         ELSE /\ links' = ExtractLinks(current_url)
              /\ IF links' = <<>>
                   THEN IF HasJobListings(pages[current_url])
                          THEN Return(current_url, links', "listing_no_links")
                          ELSE Return(NONE_URL, <<>>, "no_links")
                   ELSE IF HasJobListings(pages[current_url])
                          THEN Return(current_url, links', "listing")
                          ELSE nav_pc' = "decide" /\ UNCHANGED <<nav_result, nav_exit>>
    /\ UNCHANGED <<pages, extractor, max_hops, start_url, replay, run, reuse, first, consulted,
                   visited_urls, fetcher_visited, current_url, hop_count, fetched,
                   path, choice, decision, oracle>>
    /\ UNCHANGED notNav

\* links[:5]
FirstFive(ls) == SubSeq(ls, 1, IF Len(ls) < 5 THEN Len(ls) ELSE 5)

\* the alternative taken without the `not in self.visited_urls` test
Alternative_Unchecked(ls, seen) ==
    LET w == FirstFive(ls)
    IN IF w = <<>> THEN NONE_URL ELSE w[1]

\* for link in links[:5]: the first alt_url that is set and not visited;
\* NONE_URL when the loop ends without break
Alternative(ls, seen) ==
    LET w == FirstFive(ls)
        ok == {i \in 1..Len(w) : w[i] # NO_URL /\ w[i] \notin seen}
    IN IF ok = {} THEN NONE_URL
       ELSE w[CHOOSE i \in ok : \A j \in ok : i <= j]

\* The answers the oracle can give for this page at this hop: any, unless it
\* was asked the same before (the memory is kept only for runs that are
\* replayed, where the oracle is taken to be deterministic).
Answers(u, hop) ==
    IF <<u, hop>> \in DOMAIN oracle THEN {oracle[<<u, hop>>]} ELSE Decisions

\* decision = self.get_llm_navigation_decision(...) and the branches on it
Decide ==
    /\ nav_pc = "decide"
    /\ \E d \in Answers(current_url, hop_count) :
         /\ decision' = d
         /\ consulted' = Append(consulted, current_url)
         /\ oracle' = IF replay THEN (<<current_url, hop_count>> :> d) @@ oracle
                       ELSE oracle
         /\ LET action == Get(d, "action", "stop")
                given == Get(d, "url", NO_URL)
                stripped == Strip(given)
                asked == IF StartsWithHttp(stripped) THEN stripped
                         ELSE UrlJoin(current_url, stripped)
                next_url == IF asked \in visited_urls
                              THEN Alternative(links, visited_urls) ELSE asked
            IN IF action = "found_jobs"
                 THEN /\ Return(current_url, links, "found_jobs")
                      /\ UNCHANGED <<visited_urls, current_url, path, choice>>
               ELSE IF action = "visit_url"
                 THEN IF given = NULL_URL
                        THEN \* None.strip()
                             /\ NavRaise("AttributeError")
                             /\ UNCHANGED <<visited_urls, current_url, path, choice>>
                      ELSE IF stripped = NO_URL
                        THEN /\ Return(NONE_URL, <<>>, "no_url")
                             /\ UNCHANGED <<visited_urls, current_url, path, choice>>
                      ELSE /\ choice' = [asked |-> asked,
                                         revisit |-> asked \in visited_urls,
                                         seen |-> visited_urls,
                                         offered |-> links,
                                         next |-> next_url]
                           /\ IF next_url = NONE_URL
                                THEN /\ Return(NONE_URL, <<>>, "no_alternative")
                                     /\ UNCHANGED <<visited_urls, current_url, path>>
                                ELSE /\ visited_urls' = visited_urls \cup {next_url}
                                     /\ current_url' = next_url
                                     /\ path' = Append(path, next_url)
                                     /\ nav_pc' = "while"
                                     /\ UNCHANGED <<nav_result, nav_exit>>
               ELSE /\ Return(NONE_URL, <<>>, "stop")
                    /\ UNCHANGED <<visited_urls, current_url, path, choice>>
    /\ UNCHANGED <<pages, extractor, max_hops, start_url, replay, run, reuse, first,
                   fetcher_visited, hop_count, links, fetched>>
    /\ UNCHANGED notNav

NextNav == NavStart \/ While \/ Fetch \/ Extract \/ Decide

SpecNav == InitNav /\ [][NextNav]_vars

\* The body of the /navigate response for a run that returned (lines 345-351):
\* success = final_url is not None; final_url or request.start_url;
\* total_hops = len(navigator.visited_urls)
Response ==
    [success |-> nav_result.final_url # NONE_URL,
     final_url |-> IF nav_result.final_url \in {NONE_URL, NO_URL}
                     THEN start_url ELSE nav_result.final_url,
     visited_urls |-> visited_urls,
     total_hops |-> Cardinality(visited_urls)]

\* navigate_to_jobs(start_url, ...) is called again once the first call has
\* ended: on a new LLMNavigator (with its new PlaywrightFetcher), or on the
\* same object, whose two visited_urls sets are then what the first call left
Again ==
    /\ replay
    /\ run = 1
    /\ nav_pc \in {"returned", "raised"}
    /\ first' = [pc |-> nav_pc, result |-> nav_result, exit |-> nav_exit]
    /\ run' = 2
    /\ \E same \in BOOLEAN :
         /\ reuse' = same
         /\ visited_urls' = IF same THEN visited_urls ELSE {}
         /\ fetcher_visited' = IF same THEN fetcher_visited ELSE {}
    /\ current_url' = NONE_URL
    /\ hop_count' = 0
    /\ links' = Unbound
    /\ decision' = NoDecision
    /\ consulted' = <<>>
    /\ fetched' = <<>>
    /\ path' = <<>>
    /\ choice' = NoChoice
    /\ nav_result' = NoResult
    /\ nav_exit' = ""
    /\ nav_pc' = "start"
    /\ UNCHANGED <<pages, extractor, max_hops, start_url, replay, oracle>>
    /\ UNCHANGED notNav

NextReplay == NextNav \/ Again

SpecReplay == InitReplay /\ [][NextReplay]_vars

(***************************************************************************)
(* Discovery from the CSUSB page: scrape_csusb_links,                      *)
(* collect_postings_from_portal, deep_collect_postings (src/app.py)        *)
(***************************************************************************)
\* A URL as urlparse sees it: the host as its labels, the path in pieces (the
\* scheme is https throughout). A text is a sequence of words.
U(host, p) == [host |-> host, path |-> p]

\* the URL as one string, for `in` and the regex searches
Flat(u) == u.host \o u.path

\* url.lower()
LowerUrl(u) == U(Lower(u.host), Lower(u.path))

\* _host
Host(u) == Lower(u.host)

CSUSB_URL == U(<<"www", "csusb", "edu">>, <<"/cse/", "internships", "-careers">>)

\* the words of the fixtures in which _is_internish finds one of its terms
InternishWords == {"intern", "interns", "internship", "internships", "co-op", "co op"}

\* _is_internish
IsInternish(s) == \E i \in DOMAIN s : LowerPiece(s[i]) \in InternishWords

\* "intern" in absu.lower()
HasIntern(u) ==
    \E i \in DOMAIN Flat(u) :
        LowerPiece(Flat(u)[i]) \in {"intern", "interns", "internship", "internships"}

\* the path pieces of the fixtures that the three patterns of _job_like_path match
JobSegments == {"/job/", "/jobs/", "/position/", "/positions/", "/opportunities/",
                "/careers/", "/openings/", "/vacancies/"}
ReqIdSegments == {"/req-1042", "/job-77", "-posting_5"}
ApplySegments == {"/apply/", "/job/", "/jobs/"}

\* _job_like_path
JobLikePath(p0) ==
    LET p == Lower(p0)
    IN \/ \E i \in DOMAIN p : p[i] \in JobSegments
       \/ \E i \in DOMAIN p : p[i] \in ReqIdSegments
       \/ \E i \in DOMAIN p : p[i] \in ApplySegments

\* PLATFORMS, in dict order; a pattern is the host labels it spans
PLATFORMS ==
    << [name |-> "greenhouse", pat |-> <<"greenhouse", "io">>],
       [name |-> "lever", pat |-> <<"lever", "co">>],
       [name |-> "workday", pat |-> <<"workday">>],
       [name |-> "smartrecruiters", pat |-> <<"smartrecruiters", "com">>],
       [name |-> "icims", pat |-> <<"icims", "com">>],
       [name |-> "taleo", pat |-> <<"taleo", "net">>] >>

PlatformNames == {PLATFORMS[i].name : i \in DOMAIN PLATFORMS}

\* word in label
Contains(label, word) ==
    label = word \/ (word = "workday" /\ label = "myworkdayjobs")

\* pat in h
PatIn(pat, h) ==
    \E i \in 1..(Len(h) - Len(pat) + 1) :
        \A k \in 1..Len(pat) : Contains(h[i + k - 1], pat[k])

\* _platform_of
PlatformOf(u) ==
    LET h == Host(u)
        hits == {i \in DOMAIN PLATFORMS : PatIn(PLATFORMS[i].pat, h)}
    IN IF hits = {} THEN "other"
       ELSE PLATFORMS[CHOOSE i \in hits : \A j \in hits : i <= j].name

\* str.capitalize()
Capitalize(w) ==
    CASE w = "greenhouse" -> "Greenhouse"
      [] w = "lever" -> "Lever"
      [] w = "acme" -> "Acme"
      [] w = "csusb" -> "Csusb"
      [] w = "icims" -> "Icims"
      [] OTHER -> w

\* host.split(".")[-2].capitalize() if host else ""  (not for a one-label host)
CompanyGuess(host) ==
    IF host = <<>> THEN "" ELSE Capitalize(host[Len(host) - 1])

\* an <a href> of a page: its text and its URL made absolute
Anchor(text, u) == [text |-> text, url |-> u]

\* the loop of scrape_csusb_links over the anchors of the page; exc is the
\* exception it ends with, if any
RECURSIVE ScrapeRows(_, _, _, _)
ScrapeRows(anchors, i, rows, seen) ==
    IF i > Len(anchors) THEN [exc |-> "none", rows |-> rows]
    ELSE LET a == anchors[i]
             k == <<Lower(a.text), a.url>>
             host == Host(a.url)
         IN IF a.text = <<>> \/ k \in seen \/ ~IsInternish(a.text \o Flat(a.url))
              THEN ScrapeRows(anchors, i + 1, rows, seen)
            ELSE IF Len(host) = 1
              THEN [exc |-> "IndexError", rows |-> <<>>]
            ELSE ScrapeRows(anchors, i + 1,
                            Append(rows, [title |-> a.text,
                                          company_guess |-> CompanyGuess(host),
                                          link |-> a.url,
                                          host |-> host]),
                            seen \cup {k})

\* text or "Internship"
TitleOr(text) == IF text = <<>> THEN <<"Internship">> ELSE text

\* the first loop with the test after the append taken out
RECURSIVE FirstPass_NoBreak(_, _, _, _, _)
FirstPass_NoBreak(anchors, i, o, seen, lim) ==
    IF i > Len(anchors) THEN [out |-> o, seen |-> seen]
    ELSE LET a == anchors[i]
             key == LowerUrl(a.url)
             o2 == Append(o, [title |-> TitleOr(a.text), link |-> a.url])
         IN IF \/ ~IsInternish(a.text \o Flat(a.url))
               \/ ~JobLikePath(a.url.path)
               \/ key \in seen
              THEN FirstPass_NoBreak(anchors, i + 1, o, seen, lim)
            ELSE FirstPass_NoBreak(anchors, i + 1, o2, seen \cup {key}, lim)

\* first loop of collect_postings_from_portal
RECURSIVE FirstPass(_, _, _, _, _)
FirstPass(anchors, i, o, seen, lim) ==
    IF i > Len(anchors) THEN [out |-> o, seen |-> seen]
    ELSE LET a == anchors[i]
             key == LowerUrl(a.url)
             o2 == Append(o, [title |-> TitleOr(a.text), link |-> a.url])
         IN IF \/ ~IsInternish(a.text \o Flat(a.url))
               \/ ~JobLikePath(a.url.path)
               \/ key \in seen
              THEN FirstPass(anchors, i + 1, o, seen, lim)
            ELSE IF Len(o2) >= lim
              THEN [out |-> o2, seen |-> seen \cup {key}]
            ELSE FirstPass(anchors, i + 1, o2, seen \cup {key}, lim)

\* second loop of collect_postings_from_portal (entered with out empty)
RECURSIVE SecondPass(_, _, _, _, _)
SecondPass(anchors, i, o, seen, lim) ==
    IF i > Len(anchors) THEN [out |-> o, seen |-> seen]
    ELSE LET a == anchors[i]
             key == LowerUrl(a.url)
             o2 == Append(o, [title |-> TitleOr(a.text), link |-> a.url])
         IN IF ~(HasIntern(a.url) /\ JobLikePath(a.url.path)) \/ key \in seen
              THEN SecondPass(anchors, i + 1, o, seen, lim)
            ELSE IF Len(o2) >= lim
              THEN [out |-> o2, seen |-> seen \cup {key}]
            ELSE SecondPass(anchors, i + 1, o2, seen \cup {key}, lim)

\* collect_postings_from_portal once _read_url has returned the page
CollectPostings(anchors, lim) ==
    LET one == FirstPass(anchors, 1, <<>>, {}, lim)
    IN IF one.out = <<>>
         THEN SecondPass(anchors, 1, <<>>, one.seen, lim).out
         ELSE one.out

\* MAX_POSTINGS_PER_PORTAL and MAX_TOTAL_POSTINGS, scaled down (30 and 150 in
\* src/app.py lines 40-41) so that small pages reach them
MAX_POSTINGS_PER_PORTAL == 2
MAX_TOTAL_POSTINGS == 3

\* most links of the CSUSB page that pass scrape_csusb_links
MaxSources == 3

\* largest limit collect_postings_from_portal is called with
MaxLimit == 3

GH_HOST == <<"boards", "greenhouse", "io">>
LEVER_HOST == <<"jobs", "lever", "co">>
GH_ROOT == U(GH_HOST, <<"/acme">>)
LEVER_ROOT == U(LEVER_HOST, <<"/initech">>)
EMPTY_ROOT == U(<<"careers", "icims", "com">>, <<"/umbrella">>)
J101 == U(GH_HOST, <<"/acme", "/jobs/", "101-", "intern">>)
J101_UPPER == U(GH_HOST, <<"/acme", "/jobs/", "101-", "INTERN">>)
J102 == U(GH_HOST, <<"/acme", "/jobs/", "102">>)
J103 == U(GH_HOST, <<"/acme", "/jobs/", "103">>)
J104 == U(GH_HOST, <<"/acme", "/jobs/", "104">>)
L7 == U(LEVER_HOST, <<"/initech", "/jobs/", "7-", "intern">>)
L8 == U(LEVER_HOST, <<"/initech", "/jobs/", "8">>)
INFO == U(<<"www", "csusb", "edu">>, <<"/cse/", "internship", "-info">>)
ABOUT == U(<<"www", "csusb", "edu">>, <<"/about">>)
LOCALHOST == U(<<"localhost">>, <<"/intern">>)
J12345 == U(<<"acme", "greenhouse", "io">>, <<"/jobs/", "12345">>)
CAREERS == U(<<"acme", "com">>, <<"/careers">>)
J55667 == U(<<"acme", "com">>, <<"/careers", "/jobs/", "55667">>)

\* the <a> elements the CSUSB page may hold
LandingAnchors ==
    { Anchor(<<"Acme", "Internships">>, GH_ROOT),
      Anchor(<<"Acme", "Interns">>, GH_ROOT),
      Anchor(<<"Initech", "Co-op">>, LEVER_ROOT),
      Anchor(<<"Data", "Intern">>, J101),
      Anchor(<<"DATA", "Intern">>, J101_UPPER),
      Anchor(<<"Internship", "info">>, INFO),
      Anchor(<<"About">>, ABOUT),
      Anchor(<<"Intern", "Portal">>, LOCALHOST),
      Anchor(<<"Software", "Engineer", "Intern">>, J12345),
      Anchor(<<"Careers", "at", "Acme">>, CAREERS) }

Landings == UNION { [1..n -> LandingAnchors] : n \in 0..MaxSources }

\* the <a> elements of the portal pages
PortalPage(u) ==
    CASE u = GH_ROOT ->
           << Anchor(<<"Data", "Intern", "(Summer)">>, J101),
              Anchor(<<"Software", "Engineer">>, J102),
              Anchor(<<"Apply">>, J101_UPPER),
              Anchor(<<"ML", "Intern">>, J103),
              Anchor(<<"Security", "Intern">>, J104) >>
      [] u = LEVER_ROOT ->
           << Anchor(<<>>, L7),
              Anchor(<<"QA", "Co-op">>, L8),
              Anchor(<<"About">>, ABOUT) >>
      [] u = CAREERS ->
           << Anchor(<<"Intern">>, J55667),
              Anchor(<<"About">>, ABOUT) >>
      [] OTHER -> <<>>

PortalUrls == {GH_ROOT, LEVER_ROOT, EMPTY_ROOT}

\* how _read_url ends: the page text, or requests raising
ReadOutcomes == {"ok", "HTTPError", "Timeout"}

\* the row for a source that already looks like a posting
DirectRow(src) ==
    [title |-> src.title, company |-> src.company_guess, link |-> src.link,
     platform |-> PlatformOf(src.link), source |-> CSUSB_URL]

\* the row for a posting found on the portal page of src
PortalRow(p, src) ==
    [title |-> p.title,
     company |-> IF src.company_guess # "" THEN src.company_guess
                 ELSE CompanyGuess(Host(p.link)),
     link |-> p.link,
     platform |-> PlatformOf(src.link),
     source |-> src.link]

\* `for p in postings` without the test on total
RECURSIVE AppendPostings_NoCap(_, _, _, _, _)
AppendPostings_NoCap(rows, n, postings, i, src) ==
    IF i > Len(postings) THEN [rows |-> rows, total |-> n]
    ELSE AppendPostings_NoCap(Append(rows, PortalRow(postings[i], src)), n + 1,
                              postings, i + 1, src)

\* for p in postings: all_rows.append(...); total += 1;
\*                    if total >= MAX_TOTAL_POSTINGS: break
RECURSIVE AppendPostings(_, _, _, _, _)
AppendPostings(rows, n, postings, i, src) ==
    IF i > Len(postings) THEN [rows |-> rows, total |-> n]
    ELSE LET r == Append(rows, PortalRow(postings[i], src))
         IN IF n + 1 >= MAX_TOTAL_POSTINGS
              THEN [rows |-> r, total |-> n + 1]
              ELSE AppendPostings(r, n + 1, postings, i + 1, src)

\* the frame with its rows untouched
KeepAll(rows) == rows

\* drop_duplicates(subset=["link"], keep="last")
RECURSIVE KeepLast(_)
KeepLast(rows) ==
    IF rows = <<>> THEN <<>>
    ELSE LET init == SubSeq(rows, 1, Len(rows) - 1)
             r == rows[Len(rows)]
             rest == SelectSeq(init, LAMBDA x : x.link # r.link)
         IN Append(KeepLast(rest), r)

\* DataFrame(all_rows).drop_duplicates(subset=["link"]).reset_index(drop=True):
\* of the rows with one link the first stays, in the order of all_rows
RECURSIVE DropDuplicates(_)
DropDuplicates(rows) ==
    IF rows = <<>> THEN <<>>
    ELSE <<Head(rows)>>
         \o DropDuplicates(SelectSeq(Tail(rows), LAMBDA x : x.link # Head(rows).link))

\* sources = scrape_csusb_links()
ScrapeCsusbLinks ==
    /\ entry = "deep_collect_postings"
    /\ dpc = "scrape_csusb_links"
    /\ read' = Append(read, CSUSB_URL)
    /\ \E o \in ReadOutcomes :
         LET r == ScrapeRows(landing, 1, <<>>, {})
         IN IF o # "ok"
              THEN dpc' = "raised" /\ d_exc' = o /\ sources' = sources
            ELSE IF r.exc # "none"
              THEN dpc' = "raised" /\ d_exc' = r.exc /\ sources' = sources
            ELSE dpc' = "for_src" /\ d_exc' = d_exc /\ sources' = r.rows
    /\ UNCHANGED <<entry, landing, src_i, all_rows, total, df, failed_src, site,
                   max_pages, work, visited, results, seeds, limit, added, root_url, offers>>
    /\ UNCHANGED notDisc

\* for src in sources: the branch taken for the next source, up to the call
\* of collect_postings_from_portal
ForSrc ==
    /\ entry = "deep_collect_postings"
    /\ dpc = "for_src"
    /\ IF src_i = Len(sources)
         THEN /\ dpc' = "drop_duplicates"
              /\ UNCHANGED <<src_i, all_rows, total, added>>
         ELSE LET src == sources[src_i + 1]
              IN /\ src_i' = src_i + 1
                 /\ IF JobLikePath(src.link.path) /\ IsInternish(Flat(src.link))
                      THEN /\ all_rows' = Append(all_rows, DirectRow(src))
                           /\ total' = total + 1
                           /\ added' = 1
                           /\ dpc' = IF total + 1 >= MAX_TOTAL_POSTINGS
                                       THEN "drop_duplicates" ELSE "for_src"
                    ELSE IF PlatformOf(src.link) \in PlatformNames
                      THEN /\ dpc' = "portal"
                           /\ added' = 0
                           /\ UNCHANGED <<all_rows, total>>
                    ELSE /\ dpc' = IF total >= MAX_TOTAL_POSTINGS
                                     THEN "drop_duplicates" ELSE "for_src"
                         /\ added' = 0
                         /\ UNCHANGED <<all_rows, total>>
    /\ UNCHANGED <<entry, landing, sources, df, failed_src, d_exc, site, max_pages,
                   work, visited, results, seeds, limit, read, root_url, offers>>
    /\ UNCHANGED notDisc

\* the call of collect_postings_from_portal with its try/except taken out:
\* the exception of _read_url leaves deep_collect_postings
Portal_Unguarded ==
    /\ entry = "deep_collect_postings"
    /\ dpc = "portal"
    /\ read' = Append(read, sources[src_i].link)
    /\ \E o \in ReadOutcomes :
         LET src == sources[src_i]
             postings == CollectPostings(PortalPage(src.link), MAX_POSTINGS_PER_PORTAL)
             r == AppendPostings(all_rows, total, postings, 1, src)
         IN IF o = "ok"
              THEN /\ all_rows' = r.rows
                   /\ total' = r.total
                   /\ added' = r.total - total
                   /\ dpc' = IF r.total >= MAX_TOTAL_POSTINGS
                               THEN "drop_duplicates" ELSE "for_src"
                   /\ UNCHANGED <<failed_src, d_exc>>
              ELSE /\ dpc' = "raised"
                   /\ d_exc' = o
                   /\ failed_src' = failed_src \cup {src_i}
                   /\ UNCHANGED <<all_rows, total, added>>
    /\ UNCHANGED <<entry, landing, sources, src_i, df, site, max_pages, work,
                   visited, results, seeds, limit, root_url, offers>>
    /\ UNCHANGED notDisc

\* postings = collect_postings_from_portal(url, limit=MAX_POSTINGS_PER_PORTAL)
\* and the loop over them
Portal ==
    /\ entry = "deep_collect_postings"
    /\ dpc = "portal"
    /\ read' = Append(read, sources[src_i].link)
    /\ \E o \in ReadOutcomes :
         LET src == sources[src_i]
             postings == IF o = "ok"
                           THEN CollectPostings(PortalPage(src.link),
                                                MAX_POSTINGS_PER_PORTAL)
                           ELSE <<>>
             r == AppendPostings(all_rows, total, postings, 1, src)
         IN /\ all_rows' = r.rows
            /\ total' = r.total
            /\ added' = r.total - total
            /\ failed_src' = IF o = "ok" THEN failed_src ELSE failed_src \cup {src_i}
            /\ dpc' = IF r.total >= MAX_TOTAL_POSTINGS
                        THEN "drop_duplicates" ELSE "for_src"
    /\ UNCHANGED <<entry, landing, sources, src_i, df, d_exc, site, max_pages, work,
                   visited, results, seeds, limit, root_url, offers>>
    /\ UNCHANGED notDisc

\* lines 305-309: the empty frame, or the frame without duplicate links
ReturnFrame ==
    /\ entry = "deep_collect_postings"
    /\ dpc = "drop_duplicates"
    /\ df' = IF all_rows = <<>> THEN <<>> ELSE DropDuplicates(all_rows)
    /\ dpc' = "returned"
    /\ UNCHANGED <<entry, landing, sources, src_i, all_rows, total, failed_src, d_exc,
                   site, max_pages, work, visited, results, seeds, limit, added,
                   read, root_url, offers>>
    /\ UNCHANGED notDisc

\* collect_postings_from_portal(root_url, limit), called on its own
CollectPostingsFromPortal ==
    /\ entry = "collect_postings_from_portal"
    /\ dpc = "read_url"
    /\ read' = Append(read, root_url)
    /\ \E o \in ReadOutcomes :
         /\ results' = IF o = "ok" THEN CollectPostings(PortalPage(root_url), limit)
                       ELSE <<>>
         /\ failed_src' = IF o = "ok" THEN failed_src ELSE {1}
    /\ dpc' = "returned"
    /\ UNCHANGED <<entry, landing, sources, src_i, all_rows, total, df, d_exc, site,
                   max_pages, work, visited, seeds, limit, added, root_url, offers>>
    /\ UNCHANGED notDisc

(***************************************************************************)
(* Company scrape: deep_scrape_company_requests and                        *)
(* deep_scrape_company_playwright (src/scraper.py)                         *)
(***************************************************************************)
\* largest max_pages of the runs
MaxPages == 3

\* company.lower().replace(" ", "")
Company == "acme"

\* the host labels of the fixtures in which a word of ALLOW_HOST_HINTS occurs
HintLabels == {"workday", "myworkdayjobs", "greenhouse", "lever", "taleo", "icims",
               "smartrecruiters", "jobs", "careers", "career", "opportunities"}

\* company in d or any(h in d for h in ALLOW_HOST_HINTS)
AllowedHost(d) == \E i \in DOMAIN d : d[i] = Company \/ d[i] \in HintLabels

\* the words of the fixtures that INTERNSHIP_TERMS matches as whole words
TermWords == {"intern", "internship", "co-op", "coop", "student", "apprentice"}

\* INTERNSHIP_TERMS.search(title.lower() + " " + link.lower())
HasTerm(text, u) ==
    \E i \in DOMAIN (text \o Flat(u)) : LowerPiece((text \o Flat(u))[i]) \in TermWords

\* u.startswith("http")
IsHttp(u) == u.host # <<>>

MAILTO == U(<<>>, <<"mailto:jobs@acme.com">>)
C0 == U(<<"acme", "com">>, <<"/careers">>)

\* a company site whose pages show one posting under two titles and one
\* under two spellings of its URL, with links back to pages seen before
AcmeSite ==
    (C0 :> << Anchor(<<"Data", "Intern">>, J101),
              Anchor(<<"Jobs">>, GH_ROOT),
              Anchor(<<"Careers">>, C0),
              Anchor(<<"Mail", "us">>, MAILTO) >>)
    @@ (GH_ROOT :> << Anchor(<<"Data", "Intern", "(Summer)">>, J101),
                      Anchor(<<"ML", "Intern">>, J103),
                      Anchor(<<"Home">>, C0) >>)
    @@ (J101 :> << Anchor(<<"Apply">>, J101),
                   Anchor(<<>>, J101_UPPER) >>)

\* two pages without postings that link to each other
LoopSite ==
    (C0 :> << Anchor(<<"Jobs">>, GH_ROOT) >>)
    @@ (GH_ROOT :> << Anchor(<<"Home">>, C0), Anchor(<<"Jobs">>, GH_ROOT) >>)

Sites == {AcmeSite, LoopSite}

SeedLists == { <<>>, <<C0>>, <<GH_ROOT>>, <<C0, GH_ROOT>>, <<GH_ROOT, C0>>,
               <<MAILTO, C0>>, <<C0, C0>> }

\* title[:180] or "Internship", company, link, host, source
Posting(text, link, u) ==
    [title |-> TitleOr(text), company |-> Company, link |-> link,
     host |-> Host(link), source |-> u]

Links(ps) == {ps[i].link : i \in DOMAIN ps}

\* the cards of page u that pass the tests on the card itself, as Postings
RECURSIVE Offer(_, _, _, _)
Offer(log, anchors, i, u) ==
    IF i > Len(anchors) THEN log
    ELSE LET a == anchors[i]
         IN IF HasTerm(a.text, a.url) /\ IsHttp(a.url)
              THEN Offer(Append(log, Posting(a.text, a.url, u)), anchors, i + 1, u)
              ELSE Offer(log, anchors, i + 1, u)

\* for title, href in _extract_cards(soup): a card whose link is http and not
\* yet among the results becomes a Posting (in the Playwright variant a link
\* that is not http never carries a term in these pages)
RECURSIVE AddCards(_, _, _, _)
AddCards(res, anchors, i, u) ==
    IF i > Len(anchors) THEN res
    ELSE LET a == anchors[i]
         IN IF HasTerm(a.text, a.url) /\ IsHttp(a.url) /\ a.url \notin Links(res)
              THEN AddCards(Append(res, Posting(a.text, a.url, u)), anchors, i + 1, u)
              ELSE AddCards(res, anchors, i + 1, u)

\* the final loop of both functions: the first Posting of every link
RECURSIVE Unique(_)
Unique(ps) ==
    IF ps = <<>> THEN <<>>
    ELSE <<Head(ps)>> \o Unique(SelectSeq(Tail(ps), LAMBDA x : x.link # Head(ps).link))

\* the pages an <a> of page u leads the crawl to, in page order
Next_(anchors) == [i \in DOMAIN anchors |-> anchors[i].url]

\* tasks = [visit(s) ...] / queue = [u for u in seeds if u.startswith("http")]
ScrapeStart ==
    /\ entry \in {"deep_scrape_company_requests", "deep_scrape_company_playwright"}
    /\ dpc = "start"
    /\ \E o \in {"ok", "ImportError"} :
         /\ o = "ImportError" => entry = "deep_scrape_company_playwright"
         /\ IF o = "ImportError"
              THEN \* from playwright.sync_api import ... failed: return []
                   dpc' = "returned" /\ work' = work
              ELSE /\ dpc' = "crawl"
                   /\ work' =
                        IF entry = "deep_scrape_company_requests" /\ max_pages <= 0
                          THEN <<>>
                          ELSE LET http == SelectSeq(seeds, IsHttp)
                               IN [i \in DOMAIN http |-> [kind |-> "seed", url |-> http[i]]]
    /\ UNCHANGED <<entry, landing, sources, src_i, all_rows, total, df, failed_src,
                   d_exc, site, max_pages, visited, results, seeds, limit, added,
                   read, root_url, offers>>
    /\ UNCHANGED notDisc

\* the crawl with `if u in visited` applied to discovered links only: a seed
\* given twice is fetched twice
Visit_SeedsUnchecked ==
    /\ entry \in {"deep_scrape_company_requests", "deep_scrape_company_playwright"}
    /\ dpc = "crawl"
    /\ work # <<>>
    /\ entry = "deep_scrape_company_playwright" => Cardinality(visited) < max_pages
    /\ LET u == Head(work).url
           skip ==
               IF entry = "deep_scrape_company_requests"
                 THEN \/ Head(work).kind = "child"
                         /\ ~(Cardinality(visited) + 1 < max_pages)
                      \/ Cardinality(visited) >= max_pages
                      \/ (u \in visited /\ Head(work).kind = "child")
                 ELSE u \in visited /\ Head(work).kind = "child"
       IN IF skip
            THEN /\ work' = Tail(work)
                 /\ UNCHANGED <<visited, results, read, offers>>
            ELSE /\ visited' = visited \cup {u}
                 /\ read' = Append(read, u)
                 /\ \E loaded \in BOOLEAN :
                      IF ~loaded \/ u \notin DOMAIN site
                        THEN work' = Tail(work) /\ results' = results /\ offers' = offers
                        ELSE LET anchors == site[u]
                                 nxt == Next_(anchors)
                                 go == SelectSeq(nxt, LAMBDA n :
                                          IF entry = "deep_scrape_company_requests"
                                            THEN IsHttp(n) /\ AllowedHost(Host(n))
                                            ELSE /\ n \notin visited'
                                                 /\ Cardinality(visited') < max_pages
                                                 /\ AllowedHost(Host(n)))
                                 more == [i \in DOMAIN go |-> [kind |-> "child", url |-> go[i]]]
                             IN /\ results' = AddCards(results, anchors, 1, u)
                                /\ offers' = Offer(offers, anchors, 1, u)
                                /\ work' = IF entry = "deep_scrape_company_requests"
                                             THEN more \o Tail(work)
                                             ELSE Tail(work) \o more
    /\ UNCHANGED <<entry, dpc, landing, sources, src_i, all_rows, total, df,
                   failed_src, d_exc, site, max_pages, seeds, limit, added, root_url>>
    /\ UNCHANGED notDisc

\* one call of visit(u, client) up to its recursive calls, which wait in
\* `work` in front of the pending ones / one turn of the while loop over queue
Visit ==
    /\ entry \in {"deep_scrape_company_requests", "deep_scrape_company_playwright"}
    /\ dpc = "crawl"
    /\ work # <<>>
    /\ entry = "deep_scrape_company_playwright" => Cardinality(visited) < max_pages
    /\ LET u == Head(work).url
           skip ==
               IF entry = "deep_scrape_company_requests"
                 THEN \/ Head(work).kind = "child"
                         /\ ~(Cardinality(visited) + 1 < max_pages)
                      \/ Cardinality(visited) >= max_pages
                      \/ u \in visited
                 ELSE u \in visited
       IN IF skip
            THEN /\ work' = Tail(work)
                 /\ UNCHANGED <<visited, results, read, offers>>
            ELSE /\ visited' = visited \cup {u}
                 /\ read' = Append(read, u)
                 /\ \E loaded \in BOOLEAN :
                      IF ~loaded \/ u \notin DOMAIN site
                        THEN work' = Tail(work) /\ results' = results /\ offers' = offers
                        ELSE LET anchors == site[u]
                                 nxt == Next_(anchors)
                                 go == SelectSeq(nxt, LAMBDA n :
                                          IF entry = "deep_scrape_company_requests"
                                            THEN IsHttp(n) /\ AllowedHost(Host(n))
                                            ELSE /\ n \notin visited'
                                                 /\ Cardinality(visited') < max_pages
                                                 /\ AllowedHost(Host(n)))
                                 more == [i \in DOMAIN go |-> [kind |-> "child", url |-> go[i]]]
                             IN /\ results' = AddCards(results, anchors, 1, u)
                                /\ offers' = Offer(offers, anchors, 1, u)
                                /\ work' = IF entry = "deep_scrape_company_requests"
                                             THEN more \o Tail(work)
                                             ELSE Tail(work) \o more
    /\ UNCHANGED <<entry, dpc, landing, sources, src_i, all_rows, total, df,
                   failed_src, d_exc, site, max_pages, seeds, limit, added, root_url>>
    /\ UNCHANGED notDisc

\* the crawl is over: de-duplicate by link and return
ScrapeReturn ==
    /\ entry \in {"deep_scrape_company_requests", "deep_scrape_company_playwright"}
    /\ dpc = "crawl"
    /\ \/ work = <<>>
       \/ entry = "deep_scrape_company_playwright" /\ Cardinality(visited) >= max_pages
    /\ results' = Unique(results)
    /\ dpc' = "returned"
    /\ UNCHANGED <<entry, landing, sources, src_i, all_rows, total, df, failed_src,
                   d_exc, site, max_pages, work, visited, seeds, limit, added, read,
                   root_url, offers>>
    /\ UNCHANGED notDisc

Entries == {"deep_collect_postings", "collect_postings_from_portal",
            "deep_scrape_company_requests", "deep_scrape_company_playwright"}

InitDiscover ==
    /\ ApplyOff
    /\ NavOff
    /\ MainOff
    /\ ResOff
    /\ LinksOff
    /\ IntentOff
    /\ CoverOff
    /\ entry \in Entries
    /\ dpc = CASE entry = "deep_collect_postings" -> "scrape_csusb_links"
               [] entry = "collect_postings_from_portal" -> "read_url"
               [] OTHER -> "start"
    /\ landing \in IF entry = "deep_collect_postings" THEN Landings ELSE {<<>>}
    /\ root_url \in IF entry = "collect_postings_from_portal" THEN PortalUrls
                    ELSE {NO_URL}
    /\ limit \in IF entry = "collect_postings_from_portal" THEN 0..MaxLimit ELSE {0}
    /\ site \in IF entry \in {"deep_collect_postings", "collect_postings_from_portal"}
                  THEN {<<>>} ELSE Sites
    /\ seeds \in IF entry \in {"deep_collect_postings", "collect_postings_from_portal"}
                   THEN {<<>>} ELSE SeedLists
    /\ max_pages \in IF entry \in {"deep_collect_postings", "collect_postings_from_portal"}
                       THEN {0} ELSE 0..MaxPages
    /\ sources = <<>>
    /\ src_i = 0
    /\ all_rows = <<>>
    /\ total = 0
    /\ df = <<>>
    /\ failed_src = {}
    /\ d_exc = "none"
    /\ work = <<>>
    /\ visited = {}
    /\ results = <<>>
    /\ added = 0
    /\ read = <<>>
    /\ offers = <<>>

NextDiscover ==
    \/ ScrapeCsusbLinks \/ ForSrc \/ Portal \/ ReturnFrame
    \/ CollectPostingsFromPortal
    \/ ScrapeStart \/ Visit \/ ScrapeReturn

SpecDiscover == InitDiscover /\ [][NextDiscover]_vars

\* The two company crawls on their own. Each is one Python call that runs
\* until it returns: nothing but its own steps can keep it from its next one,
\* so a step that can be taken is taken.
InitCrawl ==
    /\ InitDiscover
    /\ entry \in {"deep_scrape_company_requests", "deep_scrape_company_playwright"}

NextCrawl == ScrapeStart \/ Visit \/ ScrapeReturn

SpecCrawl == InitCrawl /\ [][NextCrawl]_vars /\ WF_vars(NextCrawl)

(***************************************************************************)
(* The two platform resolvers: app._platform_of and auto-apply's           *)
(* _platform_for, given the same URLs                                      *)
(***************************************************************************)
\* The host of a URL inside the URL's string: its labels, each spelled with
\* the label after it where the two make a fragment _platform_for looks for.
Dotted(h) ==
    [i \in DOMAIN h |->
        IF i < Len(h) /\ <<h[i], h[i + 1]>> = <<"greenhouse", "io">> THEN "greenhouse.io"
        ELSE IF i < Len(h) /\ <<h[i], h[i + 1]>> = <<"lever", "co">> THEN "lever.co"
        ELSE h[i]]

\* the URL as the one string a caller passes: scheme, host, path and query
Href(u) == <<"https://">> \o Dotted(u.host) \o u.path

ProbeHosts ==
    { GH_HOST, LEVER_HOST, <<"acme", "com">>, <<"careers", "icims", "com">>,
      <<"acme", "myworkdayjobs", "com">> }

ProbePaths ==
    { <<>>, <<"/jobs/", "1">>, <<"/jobs/", "2">>, <<"/out?to=", "greenhouse.io">>,
      <<"/r/", "lever.co", "/x">> }

ProbeUrls == {U(h, p) : h \in ProbeHosts, p \in ProbePaths}

InitResolve ==
    /\ ApplyOff
    /\ NavOff
    /\ DiscOff
    /\ MainOff
    /\ LinksOff
    /\ IntentOff
    /\ CoverOff
    /\ probe \in ProbeUrls \X ProbeUrls
    /\ tags = NoTags

\* both resolvers applied to both URLs
Resolve ==
    /\ probe # <<>>
    /\ tags = NoTags
    /\ tags' = [app |-> <<PlatformOf(probe[1]), PlatformOf(probe[2])>>,
                auto |-> <<PlatformFor(Href(probe[1])), PlatformFor(Href(probe[2]))>>]
    /\ probe' = probe
    /\ UNCHANGED notRes

NextResolve == Resolve

SpecResolve == InitResolve /\ [][NextResolve]_vars

(***************************************************************************)
(* The links service: _get_df and its cache (src/main.py)                  *)
(***************************************************************************)
\* CACHE_TTL, scaled down (3600 seconds by default, line 57) so that a few
\* ticks of the clock outlive it
CACHE_TTL == 2

\* calls of _get_df in one run
MaxCalls == 3

\* how far the clock runs on after the service has started
MaxTicks == 2

\* time.time() when the service starts: later than CACHE_TTL after the epoch
BootTime == CACHE_TTL + 1

\* the DataFrame scraped for the c-th call
Frames == <<"df1", "df2", "df3", "df4">>
Frame(c) == Frames[c]

\* A request: which endpoint it is for ("links": csusb_links and its call of
\* _get_df; "healthz"), the argument and the local `now` of _get_df, and for
\* the properties what it saw in _cache, whether it took the cached frame,
\* how many scrapes it started, what it returned, what it put into _cache and
\* when its scrape came back.
NoCall == [pc |-> "idle", kind |-> "links", force |-> FALSE, now |-> 0,
           saw |-> EmptyCache, hit |-> FALSE, scraped |-> 0, got |-> None,
           stored |-> EmptyCache, done_at |-> 0]

InitMain ==
    /\ ApplyOff
    /\ NavOff
    /\ DiscOff
    /\ ResOff
    /\ LinksOff
    /\ IntentOff
    /\ CoverOff
    /\ clock = BootTime
    /\ cache = EmptyCache
    /\ calls = [c \in 1..MaxCalls |-> NoCall]

\* time passes
Tick ==
    /\ calls # <<>>
    /\ clock < BootTime + MaxTicks
    /\ clock' = clock + 1
    /\ UNCHANGED <<cache, calls>>
    /\ UNCHANGED notMain

\* _get_df with the test on force inverted: only a forced call takes the
\* cached frame
GetDf_ForceInverted(c, force) ==
    /\ c \in DOMAIN calls
    /\ calls[c].pc = "idle"
    /\ c > 1 => calls[c - 1].pc # "idle"
    /\ LET fresh == force /\ cache.df # None /\ clock - cache.at < CACHE_TTL
       IN calls' = [calls EXCEPT ![c] =
                      [pc |-> IF fresh THEN "returned" ELSE "to_thread",
                       kind |-> "links",
                       force |-> force, now |-> clock, saw |-> cache,
                       hit |-> fresh,
                       scraped |-> IF fresh THEN 0 ELSE 1,
                       got |-> IF fresh THEN cache.df ELSE None,
                       stored |-> EmptyCache, done_at |-> 0]]
    /\ UNCHANGED <<clock, cache>>
    /\ UNCHANGED notMain

\* now = time.time(); if not force and _cache["df"] is not None and
\* (now - _cache["at"] < CACHE_TTL): return _cache["df"]; otherwise the scrape
\* is handed to a thread and the call waits for it
GetDf(c, force) ==
    /\ c \in DOMAIN calls
    /\ calls[c].pc = "idle"
    /\ c > 1 => calls[c - 1].pc # "idle"
    /\ LET fresh == ~force /\ cache.df # None /\ clock - cache.at < CACHE_TTL
       IN calls' = [calls EXCEPT ![c] =
                      [pc |-> IF fresh THEN "returned" ELSE "to_thread",
                       kind |-> "links",
                       force |-> force, now |-> clock, saw |-> cache,
                       hit |-> fresh,
                       scraped |-> IF fresh THEN 0 ELSE 1,
                       got |-> IF fresh THEN cache.df ELSE None,
                       stored |-> EmptyCache, done_at |-> 0]]
    /\ UNCHANGED <<clock, cache>>
    /\ UNCHANGED notMain

\* the scrape's frame stored with the `now` read when the call began
ScrapeDone_StampAtStart(c) ==
    /\ c \in DOMAIN calls
    /\ calls[c].pc = "to_thread"
    /\ \/ /\ cache' = [at |-> calls[c].now, df |-> Frame(c)]
          /\ calls' = [calls EXCEPT ![c].pc = "returned",
                                    ![c].got = Frame(c),
                                    ![c].stored = cache',
                                    ![c].done_at = clock]
       \/ /\ cache' = cache
          /\ calls' = [calls EXCEPT ![c].pc = "raised", ![c].done_at = clock]
    /\ UNCHANGED clock
    /\ UNCHANGED notMain

\* a failed scrape that empties the cache
ScrapeDone_ClearsOnFailure(c) ==
    /\ c \in DOMAIN calls
    /\ calls[c].pc = "to_thread"
    /\ \/ /\ cache' = [at |-> clock, df |-> Frame(c)]
          /\ calls' = [calls EXCEPT ![c].pc = "returned",
                                    ![c].got = Frame(c),
                                    ![c].stored = cache',
                                    ![c].done_at = clock]
       \/ /\ cache' = EmptyCache
          /\ calls' = [calls EXCEPT ![c].pc = "raised", ![c].done_at = clock]
    /\ UNCHANGED clock
    /\ UNCHANGED notMain

\* df = await asyncio.to_thread(_scrape_df) comes back: with a frame, which
\* is put into _cache with the time of this moment and returned (lines 85-87
\* hold no await: no other request runs between them), or with the exception
\* of the scrape, which leaves _get_df (and becomes the 500 of csusb_links)
ScrapeDone(c) ==
    /\ c \in DOMAIN calls
    /\ calls[c].pc = "to_thread"
    /\ \/ /\ cache' = [at |-> clock, df |-> Frame(c)]
          /\ calls' = [calls EXCEPT ![c].pc = "returned",
                                    ![c].got = Frame(c),
                                    ![c].stored = cache',
                                    ![c].done_at = clock]
       \/ /\ cache' = cache
          /\ calls' = [calls EXCEPT ![c].pc = "raised", ![c].done_at = clock]
    /\ UNCHANGED clock
    /\ UNCHANGED notMain

\* GET /healthz: reads _cache["df"] and _cache["at"] with no await between
Healthz(c) ==
    /\ c \in DOMAIN calls
    /\ calls[c].pc = "idle"
    /\ c > 1 => calls[c - 1].pc # "idle"
    /\ calls' = [calls EXCEPT ![c] =
                   [NoCall EXCEPT !.pc = "returned", !.kind = "healthz",
                                  !.now = clock, !.saw = cache, !.got = cache.df]]
    /\ UNCHANGED <<clock, cache>>
    /\ UNCHANGED notMain

NextMain ==
    \/ Tick
    \/ \E c \in 1..MaxCalls, force \in BOOLEAN : GetDf(c, force)
    \/ \E c \in 1..MaxCalls : ScrapeDone(c)
    \/ \E c \in 1..MaxCalls : Healthz(c)

SpecMain == InitMain /\ [][NextMain]_vars

(***************************************************************************)
(* The crawl of the CSUSB hosts: PlaywrightFetcher.crawl_csusb_links and   *)
(* crawl_csusb_links_sync (src/playwright_fetcher.py)                      *)
(***************************************************************************)
\* A URL here is <<netloc, path>>; a link is the dict _extract_links makes of
\* an anchor, without its domain (the lowered netloc of its url).
Link(text, u) == [text |-> text, url |-> u]

MaxLinkPages == 3

CSUSB_ALLOWED_HOSTS == {"cse.csusb.edu", "sec.cse.csusb.edu"}

LK_HOME == <<"cse.csusb.edu", "/">>
LK_INTERN == <<"cse.csusb.edu", "/internships">>
LK_SEC == <<"sec.cse.csusb.edu", "/">>
LK_UPPER == <<"CSE.CSUSB.EDU", "/internships">>
LK_FLYER == <<"cse.csusb.edu", "/flyer.pdf">>
LK_MAIN == <<"www.csusb.edu", "/">>
LK_SOCIAL == <<"facebook.com", "/csusb">>

\* the pages of the fixture site that answer a request
LinkPages == {LK_HOME, LK_INTERN, LK_SEC, LK_UPPER}

\* what _extract_links can make of a page: no URL twice in one list
LinkLists ==
    { <<Link("Internships", LK_INTERN), Link("CSUSB", LK_MAIN), Link("Flyer", LK_FLYER),
        Link("Security", LK_SEC)>>,
      <<Link("Home", LK_HOME), Link("Link", LK_INTERN), Link("INTERNSHIPS", LK_UPPER),
        Link("Follow us", LK_SOCIAL)>>,
      <<Link("Flyer (PDF)", LK_FLYER), Link("Link", LK_SEC)>> }

\* urlparse(url).netloc.lower()
Netloc(u) ==
    CASE u[1] = "CSE.CSUSB.EDU" -> "cse.csusb.edu"
      [] OTHER -> u[1]

\* _same_host with no test at all
SameHost_Any(u, hosts) == TRUE

\* _same_host
SameHost(u, hosts) == Netloc(u) \in hosts

\* _is_skippable_domain: one of SKIP_DOMAINS inside the host
IsSkippableDomain(u) == Netloc(u) \in {"facebook.com", "m.facebook.com"}

\* any(path.endswith(ext) ...) on the lowered path of the URL
IsAsset(u) == u[2] \in {"/flyer.pdf"}

\* the for loop over the links of one page (lines 238-257): st carries
\* collected, seen_links and queue; seen is seen_pages
RECURSIVE KeepLinks(_, _, _, _, _)
KeepLinks(ls, i, st, seen, hosts) ==
    IF i > Len(ls) THEN st
    ELSE
        LET link == ls[i]
            u == link.url
        IN
        IF ~SameHost(u, hosts) THEN KeepLinks(ls, i + 1, st, seen, hosts)
        ELSE IF IsSkippableDomain(u) THEN KeepLinks(ls, i + 1, st, seen, hosts)
        ELSE
            LET st1 == IF u \notin st.seen_links
                       THEN [st EXCEPT !.collected = Append(@, link),
                                       !.seen_links = @ \cup {u}]
                       ELSE st
            IN
            IF IsAsset(u) THEN KeepLinks(ls, i + 1, st1, seen, hosts)
            ELSE IF u \notin seen /\ ~(\E k \in DOMAIN st1.queue : st1.queue[k] = u)
                 THEN KeepLinks(ls, i + 1, [st1 EXCEPT !.queue = Append(@, u)], seen, hosts)
                 ELSE KeepLinks(ls, i + 1, st1, seen, hosts)

\* unique.setdefault(item["url"], item) over collected; list(unique.values())
RECURSIVE UniqueLinks(_, _, _)
UniqueLinks(items, i, acc) ==
    IF i > Len(items) THEN acc
    ELSE IF \E k \in DOMAIN acc : acc[k].url = items[i].url
         THEN UniqueLinks(items, i + 1, acc)
         ELSE UniqueLinks(items, i + 1, Append(acc, items[i]))

InitLinks ==
    /\ ApplyOff
    /\ NavOff
    /\ DiscOff
    /\ MainOff
    /\ ResOff
    /\ IntentOff
    /\ CoverOff
    /\ allowed_hosts \in {CSUSB_ALLOWED_HOSTS, {"cse.csusb.edu"},
                          CSUSB_ALLOWED_HOSTS \cup {"facebook.com"}}
    /\ web \in [LinkPages -> LinkLists]
    /\ flaky \in SUBSET {LK_INTERN, LK_SEC}
    /\ lk_start \in {LK_HOME, LK_MAIN}
    /\ lk_max_pages \in 0..MaxLinkPages
    /\ queue = <<>>
    /\ seen_pages = {}
    /\ collected = <<>>
    /\ seen_links = {}
    /\ lk_current = <<>>
    /\ lk_pc = "idle"
    /\ gotos = <<>>
    /\ lk_out = <<>>
    /\ sync_out = <<>>

\* lines 206-213: the locals, the browser and its context
CrawlLinksStart ==
    /\ lk_pc = "idle"
    /\ queue' = <<lk_start>>
    /\ lk_pc' = "loop"
    /\ UNCHANGED <<allowed_hosts, web, flaky, lk_start, lk_max_pages, seen_pages,
                   collected, seen_links, lk_current, gotos, lk_out, sync_out>>
    /\ UNCHANGED notLinks

\* lines 215-222: the loop test holds; the next URL leaves the queue and is
\* either passed over or given a new page
PopQueue ==
    /\ lk_pc = "loop"
    /\ queue # <<>>
    /\ Cardinality(seen_pages) < lk_max_pages
    /\ lk_current' = Head(queue)
    /\ queue' = Tail(queue)
    /\ lk_pc' = IF Head(queue) \in seen_pages THEN "loop"
                ELSE IF ~SameHost(Head(queue), allowed_hosts) THEN "loop"
                ELSE "goto"
    /\ UNCHANGED <<allowed_hosts, web, flaky, lk_start, lk_max_pages, seen_pages,
                   collected, seen_links, gotos, lk_out, sync_out>>
    /\ UNCHANGED notLinks

\* lines 224-257: the page loads; its links are kept and queued
PageLoaded ==
    /\ lk_pc = "goto"
    /\ lk_current \notin flaky
    /\ gotos' = Append(gotos, lk_current)
    /\ seen_pages' = seen_pages \cup {lk_current}
    /\ LET st == KeepLinks(Get(web, lk_current, <<>>), 1,
                           [collected |-> collected, seen_links |-> seen_links,
                            queue |-> queue],
                           seen_pages', allowed_hosts)
       IN /\ collected' = st.collected
          /\ seen_links' = st.seen_links
          /\ queue' = st.queue
    /\ lk_pc' = "loop"
    /\ UNCHANGED <<allowed_hosts, web, flaky, lk_start, lk_max_pages, lk_current,
                   lk_out, sync_out>>
    /\ UNCHANGED notLinks

\* line 224 raises: the two finally blocks run (258-262), nothing catches the
\* exception inside crawl_csusb_links; crawl_csusb_links_sync catches it and
\* returns [] (lines 301-302)
PageFailed ==
    /\ lk_pc = "goto"
    /\ lk_current \in flaky
    /\ gotos' = Append(gotos, lk_current)
    /\ lk_pc' = "raised"
    /\ sync_out' = <<>>
    /\ UNCHANGED <<allowed_hosts, web, flaky, lk_start, lk_max_pages, queue, seen_pages,
                   collected, seen_links, lk_current, lk_out>>
    /\ UNCHANGED notLinks

\* lines 215, 260-268: the loop test fails; the collected links are returned,
\* and crawl_csusb_links_sync returns them (line 300)
CrawlLinksReturn ==
    /\ lk_pc = "loop"
    /\ ~(queue # <<>> /\ Cardinality(seen_pages) < lk_max_pages)
    /\ lk_out' = UniqueLinks(collected, 1, <<>>)
    /\ sync_out' = lk_out'
    /\ lk_pc' = "returned"
    /\ UNCHANGED <<allowed_hosts, web, flaky, lk_start, lk_max_pages, queue, seen_pages,
                   collected, seen_links, lk_current, gotos>>
    /\ UNCHANGED notLinks

NextLinks == CrawlLinksStart \/ PopQueue \/ PageLoaded \/ PageFailed \/ CrawlLinksReturn

SpecLinks == InitLinks /\ [][NextLinks]_vars

(***************************************************************************)
(* classify_intent (src/query_to_filter.py)                                *)
(***************************************************************************)
USE_OLLAMA == TRUE

\* A text is cut into pieces the way a URL is; the words the fallback looks
\* for are pieces of their own.
Texts ==
    { <<>>,
      <<" ">>,
      <<"hello">>,
      <<" ", "write a ", "cover letter", " for Acme", " ">>,
      <<"review my ", "resume">>,
      <<"find ", "INTERN", " roles">>,
      <<"any ", "job", " needing ", "experience", "?">>,
      <<"Data", " ", "career", " fair">> }

\* what _llm_json can return: the parsed JSON of the model's answer (a dict
\* with or without "intent", or another JSON value), or {} on any failure.
\* UNHASHABLE stands for a JSON list or object under "intent".
UNHASHABLE == "<list>"

Replies ==
    { [dict |-> TRUE, intent |-> l] :
        l \in {"internship_search", "resume_question", "general_question", "cover_letter",
               "Internship_Search", "", None, UNHASHABLE} }
    \cup { [dict |-> FALSE, intent |-> None] }

\* lines 243-254: the keyword fallback
FallbackIntent(s) ==
    LET sl == Lower(s) IN
    IF \E k \in {"cover letter", "coverletter"} : In(k, sl) THEN "cover_letter"
    ELSE IF \E k \in {"resume", "cv", "gpa", "projects", "experience"} : In(k, sl)
         THEN "resume_question"
    ELSE IF In("intern", sl) \/ In("career", sl) \/ In("job", sl) THEN "internship_search"
    ELSE "general_question"

\* classify_intent; "TypeError" is the exception `label in {...}` raises on
\* a label that cannot be hashed
ClassifyIntent(q, d) ==
    LET s == Strip(q)
        label == IF d.dict THEN d.intent ELSE "False"
    IN
    IF s = <<>> THEN "general_question"
    ELSE IF USE_OLLAMA /\ label = UNHASHABLE THEN "TypeError"
    ELSE IF USE_OLLAMA /\ label \in {"internship_search", "resume_question", "general_question"}
         THEN label
    ELSE FallbackIntent(s)

InitIntent ==
    /\ ApplyOff
    /\ NavOff
    /\ DiscOff
    /\ MainOff
    /\ ResOff
    /\ LinksOff
    /\ CoverOff
    /\ q_text \in Texts
    /\ llm_reply \in Replies
    /\ intent = ""

Classify ==
    /\ intent = ""
    /\ intent' = ClassifyIntent(q_text, llm_reply)
    /\ UNCHANGED <<q_text, llm_reply>>
    /\ UNCHANGED notIntent

NextIntent == Classify

SpecIntent == InitIntent /\ [][NextIntent]_vars

(***************************************************************************)
(* The cover-letter flow: cl_state.py and cl_flow.py.  No search results   *)
(* are in the session (last_results_df is None).                           *)
(***************************************************************************)
MaxOps == 3

\* the depth at which Python refuses another frame (sys.getrecursionlimit())
RecursionLimit == 3

URL_A == "https://acme.example/jobs/1"
URL_B == "https://initech.example/jobs/2"

\* what the user may type
Messages == {"", " ", "yes", "Done", "Ada", " Riverside ", URL_A}

\* str.strip() on the texts of this part
Stripped(v) ==
    CASE v = " " -> ""
      [] v = " Riverside " -> "Riverside"
      [] OTHER -> v

\* str.lower() on the texts of this part
LowerText(v) ==
    CASE v = "Done" -> "done"
      [] v = "Ada" -> "ada"
      [] v = "Riverside" -> "riverside"
      [] OTHER -> v

\* any(w in low for w in ["yes", "yep", "sure", "ok", ...]) (line 177)
SaysYes(low) == low \in {"yes"}

\* low.startswith("http://") or low.startswith("https://") (line 181)
IsLink(low) == low \in {URL_A, URL_B}

\* cl_state.set_profile_field, on a profile
SetField(p, k, v) == [x \in DOMAIN p \cup {k} |-> IF x = k THEN Stripped(v) ELSE p[x]]

\* a step of the planner
Step(action, field, value) == [action |-> action, field |-> field, value |-> value]

\* the planner's call raises, or its answer is not one of the six actions
FAIL == Step("<raise>", "", "")

\* the answers of a planner that is there
PlannerSteps ==
    { Step("ask", f, "") : f \in {"full_name", "city", "role_interest"} }
    \cup { Step("set", "city", "Riverside"), Step("set", "role_interest", "Acme"),
           Step("set", "full_name", ""), Step("set", "", "Ada") }
    \cup { Step("set_url", "", u) : u \in {"", URL_B} }
    \cup { Step("fetch_company", "", c) : c \in {"Acme", "ab"} }
    \cup { Step("answer", "", ""), Step("generate", "", ""), FAIL }

\* what _plan_next_step can be told by the planner
Choices == IF planner = "up" THEN PlannerSteps ELSE {FAIL}

\* for k in [...] of _fallback, from the i-th key on
FallbackKeys == <<"full_name", "email", "phone", "city">>

RECURSIVE FirstMissing(_, _)
FirstMissing(p, i) ==
    IF i > Len(FallbackKeys) THEN Step("generate", "", "")
    ELSE IF Stripped(Or(Get(p, FallbackKeys[i], None), "")) = ""
         THEN Step("ask", FallbackKeys[i], "")
         ELSE FirstMissing(p, i + 1)

\* _plan_next_step._fallback
Fallback(p, target_url) ==
    IF target_url = "" THEN Step("ask", "role_interest", "") ELSE FirstMissing(p, 1)

\* _plan_next_step: the planner's step, or the fallback when the call raises
PlanNextStep(c, p, target_url) == IF c = FAIL THEN Fallback(p, target_url) ELSE c

\* lines 207-209: the planner asks for the city, the user's message is not
\* empty and the profile has no city
CityFix(step1) ==
    /\ step1.action = "ask"
    /\ step1.field = "city"
    /\ Stripped(user_msg) # ""
    /\ Or(Get(cover_profile, "city", None), "") = ""

\* One frame of _drive_once past its first test, told c1, c2 and c3 by the
\* planner (c2 and c3 are asked for only on the two re-plans): the session
\* it leaves and whether it returns or calls _drive_once("") again.
DriveFrame(c1, c2, c3) ==
    LET step1 == PlanNextStep(c1, cover_profile, cover_target_url)
        msg == Stripped(user_msg)
        cityfix == CityFix(step1)
        p1 == IF cityfix THEN SetField(cover_profile, "city", msg) ELSE cover_profile
        step2 == IF cityfix THEN PlanNextStep(c2, p1, cover_target_url) ELSE step1
        replan == step2.action = "answer"
        step3 == IF replan THEN PlanNextStep(c3, p1, cover_target_url) ELSE step2
        act == step3.action
        base == [profile |-> p1, target |-> cover_target_url,
                 pending |-> pending_company_query, asks |-> asked_field,
                 made |-> generated, letter |-> letter_target,
                 collecting |-> collecting_cover_profile, again |-> FALSE]
    IN
    IF act = "ask" THEN [base EXCEPT !.asks = step3.field]
    ELSE IF act = "set" THEN
        [base EXCEPT !.again = TRUE,
                     !.profile = IF Stripped(step3.field) # "" /\ Stripped(step3.value) # ""
                                 THEN SetField(p1, Stripped(step3.field), Stripped(step3.value))
                                 ELSE p1]
    ELSE IF act = "set_url" THEN
        IF Stripped(step3.value) # ""
        THEN [base EXCEPT !.again = TRUE,
                          !.target = Stripped(step3.value),
                          !.profile = SetField(p1, "role_interest", Stripped(step3.value))]
        ELSE [base EXCEPT !.again = TRUE]
    ELSE IF act = "fetch_company" THEN
        [base EXCEPT !.pending = IF step3.value \in {"Acme"} THEN step3.value ELSE @]
    ELSE IF act = "generate" THEN
        [base EXCEPT !.made = TRUE,
                     !.letter = Or(Or(Get(p1, "role_interest", None), cover_target_url), ""),
                     !.collecting = FALSE]
    ELSE base

InitCover ==
    /\ ApplyOff
    /\ NavOff
    /\ DiscOff
    /\ MainOff
    /\ ResOff
    /\ LinksOff
    /\ IntentOff
    /\ want_cover_letter = None
    /\ collecting_cover_profile = FALSE
    /\ cover_profile = <<>>
    /\ cover_target_url = ""
    /\ resume_text \in {"", "resume"}
    /\ asked_for_resume = FALSE
    /\ pending_company_query = ""
    /\ planner \in {"up", "down"}
    /\ cv_pc = "idle"
    /\ user_msg = ""
    /\ depth = 0
    /\ asked_field = ""
    /\ answered = {}
    /\ generated = FALSE
    /\ letter_target = ""
    /\ ops = 0

\* cl_state.set_target_url, called by the application
SetTargetUrl ==
    /\ cv_pc = "idle"
    /\ ops < MaxOps
    /\ ops' = ops + 1
    /\ \E u \in {"", URL_A, URL_B} :
        /\ cover_target_url' = Stripped(u)
        /\ cover_profile' = SetField(cover_profile, "role_interest", Stripped(u))
    /\ UNCHANGED <<want_cover_letter, collecting_cover_profile, resume_text,
                   asked_for_resume, pending_company_query, planner, cv_pc, user_msg,
                   depth, asked_field, answered, generated, letter_target>>
    /\ UNCHANGED notCover

\* cl_state.set_profile_field, called by the application
SetProfileField ==
    /\ cv_pc = "idle"
    /\ ops < MaxOps
    /\ ops' = ops + 1
    /\ \E k \in {"full_name", "city", "role_interest"}, v \in {"", "Ada", " Riverside "} :
        cover_profile' = SetField(cover_profile, k, v)
    /\ UNCHANGED <<want_cover_letter, collecting_cover_profile, cover_target_url,
                   resume_text, asked_for_resume, pending_company_query, planner, cv_pc,
                   user_msg, depth, asked_field, answered, generated,
                   letter_target>>
    /\ UNCHANGED notCover

\* cl_state.reset_cover_state
ResetCoverState ==
    /\ cv_pc = "idle"
    /\ ops < MaxOps
    /\ ops' = ops + 1
    /\ \E clear_profile \in BOOLEAN :
        cover_profile' = IF clear_profile THEN <<>> ELSE cover_profile
    /\ want_cover_letter' = None
    /\ collecting_cover_profile' = FALSE
    /\ cover_target_url' = ""
    /\ asked_for_resume' = FALSE
    /\ pending_company_query' = ""
    /\ UNCHANGED <<resume_text, planner, cv_pc, user_msg, depth, asked_field,
                   answered, generated, letter_target>>
    /\ UNCHANGED notCover

\* cl_flow.offer_cover_letter
OfferCoverLetter ==
    /\ cv_pc = "idle"
    /\ ops < MaxOps
    /\ ops' = ops + 1
    /\ want_cover_letter' = IF want_cover_letter = None THEN "True" ELSE want_cover_letter
    /\ UNCHANGED <<collecting_cover_profile, cover_profile, cover_target_url, resume_text,
                   asked_for_resume, pending_company_query, planner, cv_pc, user_msg,
                   depth, asked_field, answered, generated, letter_target>>
    /\ UNCHANGED notCover

\* cl_flow.start_collection, up to its call of _drive_once
StartCollection ==
    /\ cv_pc = "idle"
    /\ ops < MaxOps
    /\ ops' = ops + 1
    /\ collecting_cover_profile' = TRUE
    /\ IF Stripped(resume_text) = "" /\ ~asked_for_resume
       THEN /\ asked_for_resume' = TRUE
            /\ UNCHANGED <<cv_pc, user_msg, depth>>
       ELSE /\ cv_pc' = "drive"
            /\ user_msg' = ""
            /\ depth' = 1
            /\ UNCHANGED asked_for_resume
    /\ UNCHANGED <<want_cover_letter, cover_profile, cover_target_url, resume_text,
                   pending_company_query, planner, asked_field, answered, generated,
                   letter_target>>
    /\ UNCHANGED notCover

\* cl_flow.handle_user_message(message_text), up to its call of _drive_once;
\* a non-empty message answers the question that is pending
Handle(message_text) ==
    LET msg == Stripped(message_text)
        low == LowerText(msg)
        offered == want_cover_letter # None /\ ~collecting_cover_profile
        drive == IF offered /\ SaysYes(low) THEN <<TRUE, msg>>
                 ELSE IF offered /\ IsLink(low) THEN <<TRUE, "">>
                 ELSE IF offered THEN <<FALSE, "">>
                 ELSE IF ~collecting_cover_profile THEN <<FALSE, "">>
                 ELSE IF low \in {"done", "uploaded", "i uploaded", "resume uploaded"}
                      THEN <<Stripped(resume_text) # "", "">>
                 ELSE <<TRUE, msg>>
    IN
    /\ cv_pc = "idle"
    /\ collecting_cover_profile' =
           (collecting_cover_profile \/ (offered /\ (SaysYes(low) \/ IsLink(low))))
    /\ IF offered /\ ~SaysYes(low) /\ IsLink(low)
       THEN /\ cover_target_url' = msg
            /\ cover_profile' = SetField(cover_profile, "role_interest", msg)
       ELSE UNCHANGED <<cover_target_url, cover_profile>>
    /\ IF drive[1]
       THEN /\ cv_pc' = "drive"
            /\ user_msg' = drive[2]
            /\ depth' = 1
       ELSE UNCHANGED <<cv_pc, user_msg, depth>>
    /\ answered' = IF asked_field # "" /\ msg # "" THEN answered \cup {asked_field}
                   ELSE answered
    /\ asked_field' = IF msg # "" THEN "" ELSE asked_field
    /\ UNCHANGED <<want_cover_letter, resume_text, asked_for_resume,
                   pending_company_query, planner, generated, letter_target>>
    /\ UNCHANGED notCover

\* the user types anything, at any time
HandleUserMessage ==
    /\ ops < MaxOps
    /\ ops' = ops + 1
    /\ \E m \in Messages : Handle(m)

\* the user answers the pending question with a non-empty message
UserAnswers ==
    /\ asked_field # ""
    /\ UNCHANGED ops
    /\ \E m \in {"Ada", " Riverside "} : Handle(m)

\* one frame of cl_flow._drive_once (lines 199-261, with
\* _generate_and_show_letter): it returns, or calls itself, or the
\* interpreter refuses the frame of that call (RecursionError)
DriveOnce ==
    /\ cv_pc = "drive"
    /\ IF Stripped(resume_text) = "" /\ asked_for_resume
       THEN /\ cv_pc' = "idle"
            /\ depth' = 0
            /\ UNCHANGED <<collecting_cover_profile, cover_profile, cover_target_url,
                           pending_company_query, user_msg, asked_field,
                           generated, letter_target>>
       ELSE \E c1 \in Choices :
            \E c2 \in IF CityFix(PlanNextStep(c1, cover_profile, cover_target_url))
                       THEN Choices ELSE {c1} :
            \E c3 \in IF c2.action = "answer" THEN Choices ELSE {c2} :
            LET f == DriveFrame(c1, c2, c3) IN
            /\ cover_profile' = f.profile
            /\ cover_target_url' = f.target
            /\ pending_company_query' = f.pending
            /\ asked_field' = f.asks
            /\ generated' = f.made
            /\ letter_target' = f.letter
            /\ collecting_cover_profile' = f.collecting
            /\ user_msg' = IF f.again THEN "" ELSE user_msg
            /\ cv_pc' = IF ~f.again THEN "idle"
                        ELSE IF depth + 1 > RecursionLimit THEN "recursion_error"
                        ELSE "drive"
            /\ depth' = IF ~f.again THEN 0
                        ELSE IF depth + 1 > RecursionLimit THEN 0
                        ELSE depth + 1
    /\ UNCHANGED <<want_cover_letter, resume_text, asked_for_resume, planner, answered,
                   ops>>
    /\ UNCHANGED notCover

NextCover ==
    \/ SetTargetUrl
    \/ SetProfileField
    \/ ResetCoverState
    \/ OfferCoverLetter
    \/ StartCollection
    \/ HandleUserMessage
    \/ DriveOnce

SpecCover == InitCover /\ [][NextCover]_vars

\* The conversation of a user who has a resume and a target URL, with no
\* planner: start_collection has called _drive_once(""); every question is
\* answered, every step that can be taken is taken.
InitFallback ==
    /\ ApplyOff
    /\ NavOff
    /\ DiscOff
    /\ MainOff
    /\ ResOff
    /\ LinksOff
    /\ IntentOff
    /\ want_cover_letter = "True"
    /\ collecting_cover_profile = TRUE
    /\ \E u \in {URL_A, URL_B} : \E known \in SUBSET {"full_name", "email", "phone", "city"} :
        /\ cover_target_url = u
        /\ cover_profile = [k \in known \cup {"role_interest"} |->
                               IF k = "role_interest" THEN u ELSE "known"]
    /\ resume_text = "resume"
    /\ asked_for_resume = FALSE
    /\ pending_company_query = ""
    /\ planner = "down"
    /\ cv_pc = "drive"
    /\ user_msg = ""
    /\ depth = 1
    /\ asked_field = ""
    /\ answered = {}
    /\ generated = FALSE
    /\ letter_target = ""
    /\ ops = 0

NextFallback == UserAnswers \/ DriveOnce

SpecFallback == InitFallback /\ [][NextFallback]_vars /\ WF_vars(NextFallback)

(***************************************************************************)
(* Properties of auto_apply_batch (checked under SpecApply)                *)
(***************************************************************************)
Running == item_i \in 1..Len(selected)

Echoes(res, item) ==
    /\ res.url = Get(item, "link", NO_URL)
    /\ res.title = Get(item, "title", "")
    /\ res.company = Get(item, "company", "")

ErrorStatuses == {ErrorStatus(e) : e \in GotoExceptions}

\* C1: at every moment the results are the echoes of a prefix of the batch,
\* in batch order, and when auto_apply_batch returns there is exactly one
\* result per selected item, whatever each attempt's outcome was.
C1_OneResultPerTargetInOrder ==
    /\ Len(out) <= Len(selected)
    /\ \A i \in 1..Len(out) : Echoes(out[i], selected[i])
    /\ pc = "returned" => Len(out) = Len(selected)

\* a returned batch of three whose attempts ended in the three kinds of outcome
C1_Witness ==
    /\ pc = "returned"
    /\ Len(out) = 3
    /\ out[1].status \in ErrorStatuses
    /\ out[2].status = "manual_required"
    /\ out[3].status = "submitted_or_attempted"

\* C2: no failure of a per-target step (new_context, new_page, the fill
\* sequence, ctx.close) leaves auto_apply_batch, and the batch ends only
\* after every target was attempted and recorded.
C2_FailureIsolated ==
    /\ pc = "raised" => exc \notin {"new_context", "new_page", "ctx_close"}
    /\ (pc \in {"returned", "raised"} /\ exc # "launch") => Len(out) = Len(selected)

\* C3: a target whose URL resolves to "other" gets no page operation at all,
\* and its result is manual_required with final_url the target URL.
C3_OtherIsManualUntouched ==
    /\ (Running /\ PlatformFor(url) = "other") =>
          /\ ~trail.touched
          /\ pc \notin {"goto", "fill"}
          /\ page_url = NO_URL
          /\ pc \in {"finally", "append"} => status = "manual_required" /\ dest = url
    /\ \A i \in 1..Len(out) :
          PlatformFor(out[i].url) = "other" =>
              out[i].status = "manual_required" /\ out[i].final_url = out[i].url

\* a recorded result for the iCIMS posting, with a later target under way
C3_Witness ==
    /\ Len(out) >= 1
    /\ out[1].url = ICIMS_URL
    /\ out[1].platform = "other"
    /\ pc = "finally" /\ item_i = 2 /\ PlatformFor(url) = "other"

\* C4 as stated: whenever a step of the fill sequence raised (page.goto, or an
\* upload / fill / click attempt), the attempt's result is an error status and
\* final_url is the target URL.
C4_AnyStepRaiseIsError ==
    (pc = "append" /\ (trail.goto \in GotoExceptions \/ trail.swallowed # "none")) =>
        status \in ErrorStatuses /\ dest = url

\* C4 amended: an exception of page.goto never leaves _apply_one and gives the
\* status "error: <reason>" with final_url the target URL; an exception of an
\* upload, fill or click attempt is eaten inside the filler, the sequence goes
\* on, and the result is submitted_or_attempted with final_url page.url.
C4_GotoRaiseIsError ==
    /\ exc \notin GotoExceptions
    /\ (pc \in {"finally", "append"} /\ trail.goto \in GotoExceptions) =>
          status = ErrorStatus(trail.goto) /\ dest = url
    /\ (pc \in {"finally", "append"} /\ trail.goto = "ok") =>
          status = "submitted_or_attempted" /\ dest = page_url

\* page.goto timed out and the attempt's result is about to be appended
C4_Witness ==
    /\ pc = "append"
    /\ trail.goto = "TimeoutError"
    /\ status = ErrorStatus("TimeoutError")

\* C5: once auto_apply_batch has finished, by returning or by raising, the
\* temporary resume file is gone.
C5_TempFileRemoved ==
    pc \in {"returned", "raised"} => tmp_files = {}

AllClosed == \A c \in DOMAIN contexts : contexts[c] = "closed"

\* C6: the i-th target runs in the i-th context made, which is open during the
\* attempt while every other context is closed; no context is open when the
\* next target starts or when the batch has finished.
C6_ContextPerTargetClosed ==
    /\ pc \in {"new_page", "dispatch", "goto", "fill", "finally"} =>
          /\ ctx = item_i
          /\ ctx = Len(contexts)
          /\ \A c \in DOMAIN contexts : contexts[c] = "open" <=> c = ctx
    /\ pc \in {"loop", "new_context", "append", "browser_close"} => AllClosed
    /\ pc \in {"returned", "raised"} => AllClosed

\* the third target is about to start after an error and a manual_required
C6_Witness ==
    /\ pc = "new_context"
    /\ item_i = 3
    /\ out[1].status \in ErrorStatuses
    /\ out[2].status = "manual_required"
    /\ Len(contexts) = 2

\* C7: an attempt during which the remote page did not respond at some step
\* (page.goto, or an upload / fill / click that ran into Playwright's timeout)
\* is recorded with the timeout error status.
C7_UnresponsiveIsTimeoutError ==
    (pc = "append" /\ (trail.goto = "TimeoutError" \/ trail.swallowed = "timeout")) =>
        status = ErrorStatus("TimeoutError")

\* the batch of three targets: a greenhouse, a lever and an icims posting
ThreeHosts ==
    /\ Len(selected) = 3
    /\ [i \in 1..3 |-> Get(selected[i], "link", NO_URL)] = <<GH_URL, LEVER_URL, ICIMS_URL>>

\* what can fail outside the fillers: the browser, its contexts and pages
OutsideFiller == {"launch", "new_context", "new_page", "ctx_close", "browser_close"}

\* C24: for the batch greenhouse, lever, icims the statuses are
\* submitted_or_attempted, submitted_or_attempted, manual_required in that
\* order, and a failing upload, fill or submit step inside a filler neither
\* changes a status nor raises: an attempt whose page loaded ends as
\* submitted_or_attempted whatever its fill steps swallowed, the icims target
\* is manual_required, and an exception never comes from a fill step.
C24_FillStepFailureInvisible ==
    ThreeHosts =>
      /\ (pc = "append" /\ item_i \in 1..2 /\ trail.goto = "ok")
            => status = "submitted_or_attempted"
      /\ (pc = "append" /\ item_i = 3) => status = "manual_required"
      /\ pc \in {"unwind", "raised"} => exc \in OutsideFiller
      /\ pc = "returned" =>
            /\ Len(out) = 3
            /\ out[3].status = "manual_required"
            /\ \A i \in 1..2 :
                 out[i].status \in {"submitted_or_attempted"} \cup ErrorStatuses

C24_Witness ==
    /\ ThreeHosts
    /\ pc = "append" /\ item_i = 2
    /\ trail.goto = "ok" /\ trail.swallowed # "none"
    /\ status = "submitted_or_attempted"
    /\ Len(out) = 1 /\ out[1].status = "submitted_or_attempted"

\* navigate, then the seven selector loops
FillerOrder == <<"navigate">> \o Stages

\* C25: the steps of a filler begin in the order navigate, resume, first name,
\* last name, email, phone, cover text, submit; a selector loop acts on at
\* most one control, a control of the page that the first selector to get
\* through names, and tries no selector after it; a loop none of whose
\* selectors gets through acts on nothing and the filler moves on to the next
\* step; submit is the eighth step.
C25_FixedOrderFirstMatch ==
    /\ Len(trail.steps) <= Len(FillerOrder)
    /\ \A i \in 1..Len(trail.steps) : trail.steps[i] = FillerOrder[i]
    /\ last.stage # "" =>
         LET sels == Selectors(platform, last.stage)
         IN /\ Cardinality(last.filled) <= 1
            /\ last.filled \subseteq FormOf(url)
            /\ last.used # 0 =>
                 /\ last.filled = {sels[last.used]}
                 /\ last.tried = last.used
                 /\ \A j \in 1..(last.used - 1) :
                      sels[j] \in FormOf(url) => last.fault # "none"
            /\ last.used = 0 =>
                 /\ last.filled = {}
                 /\ last.tried = Len(sels)
                 /\ pc = "fill" => status = "" /\ exc = "none"
            /\ pc = "fill" =>
                 /\ stage = Len(trail.steps)
                 /\ trail.steps[Len(trail.steps)] = last.stage
            /\ last.stage = "submit" => Len(trail.steps) = Len(FillerOrder)

C25_Witness ==
    /\ pc = "fill" /\ url = GH_URL
    /\ trail.steps = FillerOrder
    /\ last.stage = "submit" /\ last.used = 4 /\ last.fault # "none"
    /\ last.filled = {"button:has-text(\"Apply\")"}

(***************************************************************************)
(* Properties of navigate_to_jobs (checked under SpecNav)                  *)
(***************************************************************************)
Range(q) == {q[i] : i \in DOMAIN q}

NoDup(q) == \A i, j \in DOMAIN q : q[i] = q[j] => i = j

\* C8: a run with max_hops = N makes at most N + 1 URLs current, all distinct
\* and all entered in visited_urls, and it fetches each URL at most once and
\* only URLs of that path.
C8_BoundedPath ==
    /\ Len(path) <= max_hops + 1
    /\ NoDup(path)
    /\ Range(path) = visited_urls
    /\ Cardinality(visited_urls) <= max_hops + 1
    /\ NoDup(fetched)
    /\ Len(fetched) <= max_hops
    /\ Range(fetched) \subseteq Range(path)

\* a run through a site with cycles that used up a budget of four hops
C8_Witness ==
    /\ nav_pc = "returned"
    /\ nav_exit = "max_hops"
    /\ max_hops = 4
    /\ pages = Mesh
    /\ Cardinality(visited_urls) = 5
    /\ Len(fetched) = 4

Unvisited(ls, seen) == {i \in 1..Len(ls) : ls[i] \notin seen}

C28_ReturnsNormally ==
    extractor = "two_argument" => nav_pc # "raised"

\* the page u was fetched for the first time as the i-th fetch of the run
Loaded(i) ==
    /\ fetched[i] \in DOMAIN pages
    /\ \A j \in 1..(i - 1) : fetched[j] # fetched[i]

\* C29: the oracle is asked only about a page that was fetched, gave at
\* least one link and that has_job_listings did not take for a listing; a
\* fetched page that has_job_listings takes for a listing is the last page of
\* the run: the oracle is not asked about it, nothing is fetched after it,
\* and the run returns its URL.
C29_OracleAfterHeuristic ==
    /\ \A k \in 1..Len(consulted) :
         \E i \in 1..Len(fetched) :
            /\ fetched[i] = consulted[k]
            /\ Loaded(i)
            /\ ExtractLinks(fetched[i]) # <<>>
            /\ ~HasJobListings(pages[fetched[i]])
    /\ nav_pc = "decide" =>
         /\ fetched # <<>> /\ fetched[Len(fetched)] = current_url
         /\ links = ExtractLinks(current_url) /\ links # <<>>
         /\ ~HasJobListings(pages[current_url])
         /\ \A k \in 1..Len(consulted) : consulted[k] # current_url
    /\ \A i \in 1..Len(fetched) :
         (extractor = "two_argument" /\ Loaded(i) /\ HasJobListings(pages[fetched[i]])) =>
            /\ i = Len(fetched)
            /\ \A k \in 1..Len(consulted) : consulted[k] # fetched[i]
            /\ nav_pc \in {"extract", "returned"}
            /\ nav_pc = "returned" =>
                 /\ nav_result.final_url = fetched[i]
                 /\ nav_exit \in {"listing", "listing_no_links"}

C29_Witness ==
    /\ nav_pc = "returned" /\ nav_exit = "listing"
    /\ Len(fetched) >= 2 /\ Len(consulted) = Len(fetched) - 1
    /\ nav_result.final_url = fetched[Len(fetched)]

C20_FreshReplaySame ==
    (run = 2 /\ ~reuse /\ nav_pc \in {"returned", "raised"}) =>
        /\ nav_pc = first.pc
        /\ nav_exit = first.exit
        /\ nav_result = first.result

(***************************************************************************)
(* Properties of the discovery functions (checked under SpecDiscover)      *)
(***************************************************************************)
Deep == entry = "deep_collect_postings"

Scrape == entry \in {"deep_scrape_company_requests", "deep_scrape_company_playwright"}

\* the rows a source offers when its page can be read
OfferedBy(src) ==
    IF JobLikePath(src.link.path) /\ IsInternish(Flat(src.link))
      THEN <<DirectRow(src)>>
    ELSE IF PlatformOf(src.link) \in PlatformNames
      THEN LET ps == CollectPostings(PortalPage(src.link), MAX_POSTINGS_PER_PORTAL)
           IN [i \in DOMAIN ps |-> PortalRow(ps[i], src)]
    ELSE <<>>

\* the rows the sources srcs[i], i in 1..n and not in skip, offer, in order
RECURSIVE Offered(_, _, _)
Offered(srcs, n, skip) ==
    IF n = 0 THEN <<>>
    ELSE Offered(srcs, n - 1, skip)
         \o (IF n \in skip THEN <<>> ELSE OfferedBy(srcs[n]))

Prefix(q, n) == SubSeq(q, 1, IF Len(q) < n THEN Len(q) ELSE n)

\* the positions of log at which a link occurs for the first time
Firsts(log) == {i \in DOMAIN log : \A j \in 1..(i - 1) : log[j].link # log[i].link}

\* final holds exactly the first entry of every link of log, in log order
FirstWins(final, log) ==
    /\ Len(final) = Cardinality(Firsts(log))
    /\ \A k \in DOMAIN final :
          \E i \in Firsts(log) :
              /\ Cardinality({j \in Firsts(log) : j <= i}) = k
              /\ final[k] = log[i]

\* C13: deep_collect_postings never ends by raising.
C13_NeverRaises ==
    Deep => dpc # "raised"

\* C14: a source whose portal page cannot be read puts no row into all_rows,
\* raises nothing and does not end the loop; the run returns what it would
\* have returned had the failed sources not been listed at all.
C14_FailedSourceContributesNothing ==
    Deep =>
        /\ dpc = "raised" => src_i = 0
        /\ (src_i \in failed_src /\ dpc # "portal") => added = 0
        /\ (src_i \in failed_src /\ dpc = "drop_duplicates") => src_i = Len(sources)
        /\ dpc = "returned" =>
              /\ all_rows = Prefix(Offered(sources, src_i, failed_src), MAX_TOTAL_POSTINGS)
              /\ df = DropDuplicates(all_rows)

\* the first source failed and the returned rows come from the second
C14_Witness ==
    /\ Deep
    /\ dpc = "returned"
    /\ failed_src = {1}
    /\ Len(sources) >= 2
    /\ Len(df) >= 1
    /\ df[1].source = sources[2].link

\* C15: neither all_rows nor the returned collection ever holds more than
\* MAX_TOTAL_POSTINGS rows.
C15_GlobalCap ==
    Deep =>
        /\ total = Len(all_rows)
        /\ Len(all_rows) <= MAX_TOTAL_POSTINGS
        /\ Len(df) <= MAX_TOTAL_POSTINGS

\* the sources offered more rows than the cap and exactly cap-many came back
C15_Witness ==
    /\ Deep
    /\ dpc = "returned"
    /\ Len(df) = MAX_TOTAL_POSTINGS
    /\ Len(Offered(sources, Len(sources), {})) > MAX_TOTAL_POSTINGS

\* C16: when no fetch failed and the sources offer at least cap-many distinct
\* links, the returned collection is the first cap-many distinct rows in
\* processing order.
C16_ExactlyCapMany ==
    (/\ Deep /\ dpc = "returned" /\ failed_src = {}
     /\ Len(DropDuplicates(Offered(sources, Len(sources), {}))) >= MAX_TOTAL_POSTINGS) =>
        df = Prefix(DropDuplicates(Offered(sources, Len(sources), {})), MAX_TOTAL_POSTINGS)

NoTwo(ps, f(_)) == \A i, j \in DOMAIN ps : f(ps[i].link) = f(ps[j].link) => i = j

Same(u) == u

C18_FirstSeenWins ==
    /\ (Deep /\ dpc = "returned") => FirstWins(df, all_rows)
    /\ Scrape => FirstWins(results, offers)

\* a posting found on the CSUSB page and again, under another title, on a portal
C18_Witness ==
    /\ Deep
    /\ dpc = "returned"
    /\ Len(all_rows) >= 2
    /\ all_rows[1].link = all_rows[2].link
    /\ all_rows[1].title # all_rows[2].title
    /\ all_rows[1].source # all_rows[2].source
    /\ df[1] = all_rows[1]

C21_PostingLinkKeptNotFetched ==
    Deep =>
      \A i \in 1..src_i :
         LET src == sources[i]
         IN (/\ i = src_i => dpc # "portal"
             /\ IsInternish(src.title)
             /\ JobLikePath(src.link.path)
             /\ PlatformOf(src.link) = "greenhouse") =>
               /\ \E k \in DOMAIN all_rows :
                     all_rows[k] = DirectRow(src) /\ all_rows[k].platform = "greenhouse"
               /\ \A k \in DOMAIN read : read[k] # src.link

\* C22: when the CSUSB page links to the generic careers page of a host that
\* is no ATS ('Careers at Acme'), that page is read as a portal root and the
\* internship posting linked from it is returned exactly once, with the
\* careers page as its source.
C22_CareersPageFollowed ==
    (/\ Deep
     /\ dpc = "returned"
     /\ landing = <<Anchor(<<"Careers", "at", "Acme">>, CAREERS)>>
     /\ failed_src = {}) =>
        /\ \E k \in DOMAIN read : read[k] = CAREERS
        /\ Cardinality({k \in DOMAIN df : df[k].link = J55667}) = 1
        /\ \A k \in DOMAIN df : df[k].link = J55667 => df[k].source = CAREERS

\* C30: a company crawl requests at most max_pages pages, requests no URL
\* twice, and returns, whatever the links between the pages are and whichever
\* pages fail to load.
C30_BoundedCrawlEnds ==
    /\ [](Scrape => /\ Len(read) <= max_pages
                    /\ NoDup(read)
                    /\ Range(read) = visited)
    /\ Scrape => <>(dpc = "returned")

C30_Witness ==
    /\ Scrape
    /\ dpc = "returned"
    /\ site = LoopSite
    /\ max_pages = 2
    /\ read = <<C0, GH_ROOT>>

\* C23: both resolvers decide by the host alone: two URLs with the same host
\* get the same tag from _platform_of and the same tag from _platform_for,
\* and a URL whose host holds no known fragment is tagged "other" by both.
C23_HostDecidesPlatform ==
    tags # NoTags =>
      /\ probe[1].host = probe[2].host =>
            /\ tags.app[1] = tags.app[2]
            /\ tags.auto[1] = tags.auto[2]
      /\ \A i \in 1..2 :
            (\A k \in DOMAIN PLATFORMS : ~PatIn(PLATFORMS[k].pat, Host(probe[i]))) =>
                /\ tags.app[i] = "other"
                /\ tags.auto[i] = "other"

\* C27: a call of _get_df takes the cached frame, without scraping, exactly
\* when it is not forced, a frame is cached and the frame is younger than
\* CACHE_TTL at the time of the call; any other call scrapes once, and when
\* its scrape comes back with a frame, that frame is returned and is, with
\* the time of that moment, what _cache holds from then on.
C27_CachedExactlyWhenFresh ==
    /\ [](\A c \in DOMAIN calls :
            LET k == calls[c]
                fresh == ~k.force /\ k.saw.df # None /\ k.now - k.saw.at < CACHE_TTL
            IN (k.pc # "idle" /\ k.kind = "links") =>
                 /\ k.hit <=> fresh
                 /\ k.hit => /\ k.pc = "returned"
                             /\ k.scraped = 0
                             /\ k.got = k.saw.df
                             /\ k.stored = EmptyCache
                 /\ ~k.hit => /\ k.scraped = 1
                              /\ k.pc = "returned" =>
                                   k.got = Frame(c) /\ k.stored.df = k.got)
    /\ [][\A c \in DOMAIN calls :
            /\ (calls[c].pc = "idle" /\ calls'[c].pc # "idle") =>
                  /\ calls'[c].now = clock /\ calls'[c].saw = cache
                  /\ cache' = cache
            /\ (calls[c].pc = "to_thread" /\ calls'[c].pc = "returned") =>
                  /\ cache' = [at |-> clock, df |-> calls'[c].got]
                  /\ calls'[c].stored = cache']_vars

C27_Witness ==
    /\ calls # <<>>
    /\ calls[1].pc = "returned" /\ ~calls[1].hit
    /\ calls[2].pc = "returned" /\ calls[2].hit
    /\ calls[2].got = "df1"
    /\ calls[2].now - cache.at = CACHE_TTL - 1

\* C33: total_hops of the /navigate response is the number of hops of the
\* run, a hop being one move from a page to a link found on it: one less than
\* the number of URLs that were made the current page (0 when the start page
\* is accepted).
C33_TotalHopsCountsHops ==
    nav_pc = "returned" => Response.total_hops = Len(path) - 1

\* C40: the text typed into a first-name, last-name, email or phone control
\* is the value the identity record holds under that key, the empty string
\* when the record has no such key.
C40_TypedValueIsRecordValue ==
    (last.stage \in {"first_name", "last_name", "email", "phone"} /\ last.used # 0) =>
        last.value = Get(who, last.stage, "")

\* C37: whatever the interleaving of the requests, _cache holds nothing or
\* the frame of one scrape together with the time at which that very scrape
\* came back, /healthz sees such a pair too, and the cached time never
\* decreases.
C37_PairFromOneScrape ==
    /\ [](calls # <<>> =>
            LET pairs == {[at |-> calls[c].done_at, df |-> Frame(c)] :
                            c \in {d \in DOMAIN calls :
                                     /\ calls[d].kind = "links"
                                     /\ calls[d].pc = "returned"
                                     /\ ~calls[d].hit}}
            IN /\ cache \in {EmptyCache} \cup pairs
               /\ \A c \in DOMAIN calls :
                    (calls[c].kind = "healthz" /\ calls[c].pc = "returned") =>
                        calls[c].saw \in {EmptyCache} \cup pairs)
    /\ [][cache'.at >= cache.at]_vars

\* two scrapes overlapped, the one begun later came back first, /healthz read
\* the cache between their returns
C37_Witness ==
    /\ calls # <<>>
    /\ calls[1].pc = "returned" /\ calls[1].scraped = 1
    /\ calls[2].pc = "returned" /\ calls[2].scraped = 1
    /\ calls[2].done_at < calls[1].done_at
    /\ calls[3].kind = "healthz" /\ calls[3].pc = "returned"
    /\ calls[3].saw.df = "df2"
    /\ cache.df = "df1"

\* C38: a scrape that fails leaves _cache as it was, and an unforced call
\* made while the cached frame is younger than CACHE_TTL is served that frame,
\* whether or not a scrape failed since it was stored.
C38_FailedScrapeKeepsCache ==
    /\ [][\A c \in DOMAIN calls :
            (calls[c].pc = "to_thread" /\ calls'[c].pc = "raised") => cache' = cache]_vars
    /\ [](\A c \in DOMAIN calls : \A d \in DOMAIN calls :
            (/\ calls[c].kind = "links" /\ calls[c].pc = "returned" /\ ~calls[c].hit
             /\ calls[d].pc = "raised"
             /\ cache = calls[c].stored
             /\ calls[c].done_at <= calls[d].done_at) =>
                \A e \in DOMAIN calls :
                   (/\ calls[e].kind = "links" /\ calls[e].pc # "idle"
                    /\ ~calls[e].force
                    /\ calls[e].now >= calls[d].done_at
                    /\ calls[e].now - calls[c].done_at < CACHE_TTL
                    /\ calls[e].saw = calls[c].stored) =>
                       calls[e].hit /\ calls[e].got = Frame(c))

C38_Witness ==
    /\ calls # <<>>
    /\ calls[1].pc = "returned" /\ ~calls[1].hit
    /\ calls[2].pc = "raised" /\ calls[2].force
    /\ calls[2].saw = calls[1].stored
    /\ calls[3].kind = "links" /\ ~calls[3].force
    /\ calls[3].now > calls[2].done_at
    /\ calls[3].hit /\ calls[3].got = "df1"
    /\ cache = calls[1].stored


(***************************************************************************)
(* The crawl of the CSUSB hosts: properties                                *)
(***************************************************************************)
\* C31: crawl_csusb_links passes to page.goto only URLs whose host is in
\* allowed_hosts, passes no URL twice and passes at most max_pages of them;
\* the list it returns holds only URLs of allowed_hosts, each one once.
C31_CrawlStaysInsideAllowedHosts ==
    /\ \A i \in DOMAIN gotos : Netloc(gotos[i]) \in allowed_hosts
    /\ \A i, j \in DOMAIN gotos : gotos[i] = gotos[j] => i = j
    /\ Len(gotos) <= lk_max_pages
    /\ lk_pc = "returned" =>
        /\ \A i \in DOMAIN lk_out : Netloc(lk_out[i].url) \in allowed_hosts
        /\ \A i, j \in DOMAIN lk_out : lk_out[i].url = lk_out[j].url => i = j

\* a crawl that returned at its page limit with pages left in the queue,
\* having met a link outside the allowed hosts and one URL on two pages
C31_Witness ==
    /\ lk_pc = "returned"
    /\ Len(gotos) = lk_max_pages
    /\ lk_max_pages >= 2
    /\ queue # <<>>
    /\ \E i \in DOMAIN gotos : \E k \in DOMAIN web[gotos[i]] :
          Netloc(web[gotos[i]][k].url) \notin allowed_hosts
    /\ \E i, j \in DOMAIN gotos : i # j /\ \E k \in DOMAIN web[gotos[i]] :
          \E m \in DOMAIN web[gotos[j]] : web[gotos[i]][k].url = web[gotos[j]][m].url
    /\ Len(lk_out) >= 3

\* C32: when loading one page fails, the links collected from the pages
\* loaded before it are still returned by crawl_csusb_links_sync.
C32_PageFailureKeepsCollected ==
    lk_pc \in {"returned", "raised"} =>
        \A i \in DOMAIN collected : \E k \in DOMAIN sync_out : sync_out[k] = collected[i]


(***************************************************************************)
(* classify_intent: properties                                             *)
(***************************************************************************)
\* C35: whatever the text and whatever _llm_json returns, classify_intent
\* returns internship_search, resume_question or general_question.
C35_OneOfThreeLabels ==
    intent \notin {"", "off"} =>
        intent \in {"internship_search", "resume_question", "general_question"}


(***************************************************************************)
(* The cover-letter flow: properties                                       *)
(***************************************************************************)
\* C36: between any two operations on the cover-letter state, when
\* role_interest or cover_target_url is set, both hold the same value.
C36_RoleInterestMirrorsTarget ==
    cv_pc = "idle" =>
        LET role == Or(Get(cover_profile, "role_interest", None), "") IN
        (role # "" \/ cover_target_url # "") => role = cover_target_url

\* C39: a call of _drive_once returns: it is never ended by the interpreter
\* for the depth of its calls of itself, whatever the planner answers.
C39_DriveOnceReturns == cv_pc # "recursion_error"

\* C34: with no planner, a resume and a target URL, a user who answers every
\* question gets to the generation of the letter, and is never asked again
\* about a field already answered.
C34_FallbackReachesGenerate ==
    /\ [](asked_field = "" \/ asked_field \notin answered)
    /\ <>generated

====
